---- MODULE Spec2Model ----
(***************************************************************************)
(* Incremental, parallel build pipeline of the static-site generator:      *)
(* BuildCache (cache.rs), WorkQueue / WorkerPool (parallel.rs) and the     *)
(* parallel sweep build_all_parallel / process_post_parallel (main.rs).    *)
(***************************************************************************)
EXTENDS Integers, Sequences, FiniteSets, TLC

\* ---------------------------------------------------------------- bounds
NumPaths == 2
NumWorkers == 2
MaxRuns == 2
MaxEdits == 1
NumVersions == 2
NumThemes == 2
MaxUpdates == 3
MaxNest == 6
MaxTagChars == 5
MaxHtmlTokens == 3
MaxAttrs == 2
MaxValueTokens == 3
MaxBaseChars == 3
MaxPreTokens == 4
MaxTextTokens == 3
MaxThemeFiles == 2

\* ------------------------------------------------------------ value sets
Paths == 1..NumPaths
Workers == 1..NumWorkers
None == "none"
\* The absent value of a record-valued or tuple-valued variable.
Nil == [nil |-> TRUE]
NoHash == <<>>

\* A content file: its bytes are abstracted to a version number and the
\* draft flag its frontmatter carries.
Contents == [ver : 1..NumVersions, draft : BOOLEAN]
Themes == 1..NumThemes

\* cache.rs hash_file: digest of the file's bytes (injective on contents).
hash_file(content) == <<"blake3", content.ver, content.draft>>

\* cache.rs hash_directory: digest of the theme directory's (path, bytes).
hash_directory(th) == <<"blake3dir", th>>

\* generator.rs get_post_path: <output_dir>/<category>/<slug>/index.html
path_to_slug(p) == <<"slug", p>>
get_post_path(p) == <<"dist", path_to_slug(p), "index.html">>

FileHashes == {hash_file(c) : c \in Contents}
TemplateHashes == {hash_directory(t) : t \in Themes}
OutputPaths == {get_post_path(p) : p \in Paths}

\* ----------------------------------------------------------------- state
VARIABLES
    files,        \* content directory: path -> content
    theme,        \* theme directory on disk
    diskCache,    \* .build-cache/cache.json (Nil when absent)
    diskMeta,     \* .build-cache/metadata.json (Nil when absent)
    now,          \* wall clock (chrono::Utc::now)
    cache,        \* Arc<Mutex<BuildCache>> contents
    lastWrite,    \* history: path -> last (file_hash, template_hash) written
    updates,      \* history: number of update_entry calls made
    run,          \* number of builds started
    edits,        \* number of edits made to the content / theme directories
    mainPc,       \* position of the main thread in build_all_parallel
    useCache,     \* use_cache argument (--incremental)
    templateHash, \* template_hash computed before the workers start
    metadata,     \* MetadataCache in memory
    toSend,       \* file_paths not yet sent to the work queue
    queue,        \* work channel buffer
    senderOpen,   \* WorkQueue.sender not yet dropped
    workLock,     \* Mutex around the work receiver
    cacheLock,    \* Mutex around the BuildCache
    wpc,          \* position of each worker thread
    wpath,        \* path a worker is processing
    wres,         \* BuildResult a worker is about to send
    progress,     \* BuildProgress counters
    chan,         \* result channel buffer
    mainTx,       \* the main thread's result_tx not yet dropped
    results,      \* results Vec collected by the main thread
    errors,       \* errors Vec of the aggregation
    outcome,      \* how build_all_parallel's post sweep ended
    saves,        \* history: writes of the cache document in this build
    recvCount,    \* history: path -> number of times it was recvCount from the queue
    procCount,    \* history: path -> calls of process_post_parallel
    faulty,       \* history: paths for which a pipeline step was made to fail
    prev,         \* history: summary of the previous build
    postPath,     \* build --post <path>: the path argument (0: none)
    written,      \* history: output files written by generate_post in this build
    arg,          \* arguments of a call of a Renderer function (Nil: none)
    ret           \* value the call returned (Nil: not called yet)

cacheVars == <<cache, lastWrite, updates, now>>
diskVars == <<files, theme, diskCache, diskMeta>>
poolVars == <<workLock, cacheLock, wpc, wpath, wres, progress, recvCount,
             procCount, faulty>>
chanVars == <<toSend, queue, senderOpen, chan, mainTx>>
buildVars == <<run, edits, mainPc, useCache, templateHash, metadata, toSend,
               queue, senderOpen, workLock, cacheLock, wpc, wpath, wres,
               progress, chan, mainTx, results, errors, outcome, saves,
               recvCount, procCount, faulty, prev, postPath, written, arg, ret>>
vars == <<files, theme, diskCache, diskMeta, now, cache, lastWrite, updates,
          run, edits, mainPc, useCache, templateHash, metadata, toSend,
          queue, senderOpen, workLock, cacheLock, wpc, wpath, wres,
          progress, chan, mainTx, results, errors, outcome, saves,
          recvCount, procCount, faulty, prev, postPath, written, arg, ret>>

\* ------------------------------------------------------------ BuildCache
PkgVersion == "CARGO_PKG_VERSION"

\* cache.rs BuildCache::new
BuildCache_new == [version |-> PkgVersion, entries |-> <<>>]

\* needs_rebuild with the two comparisons joined by && instead of ||.
needs_rebuild_and(c, path, current_hash, current_template_hash) ==
    IF path \notin DOMAIN c.entries
    THEN TRUE
    ELSE /\ c.entries[path].file_hash # current_hash
         /\ c.entries[path].template_hash # current_template_hash

\* needs_rebuild that forgets to compare the file hash.
needs_rebuild_template_only(c, path, current_hash, current_template_hash) ==
    IF path \notin DOMAIN c.entries
    THEN TRUE
    ELSE c.entries[path].template_hash # current_template_hash

\* needs_rebuild that forgets to compare the template hash.
needs_rebuild_file_only(c, path, current_hash, current_template_hash) ==
    IF path \notin DOMAIN c.entries
    THEN TRUE
    ELSE c.entries[path].file_hash # current_hash

\* cache.rs BuildCache::needs_rebuild
needs_rebuild(c, path, current_hash, current_template_hash) ==
    IF path \notin DOMAIN c.entries
    THEN TRUE
    ELSE \/ c.entries[path].file_hash # current_hash
         \/ c.entries[path].template_hash # current_template_hash

\* cache.rs BuildCache::update_entry (HashMap::insert, stamping the time)
update_entry(c, path, hash, template_hash, output, t) ==
    [c EXCEPT !.entries =
        [q \in (DOMAIN c.entries) \cup {path} |->
            IF q = path
            THEN [file_hash |-> hash, template_hash |-> template_hash,
                  output_path |-> output, built_at |-> t]
            ELSE c.entries[q]]]

\* ------------------------------------------------------- initial state
\* parallel.rs WorkerPool::new, BuildProgress::new, Mutex::new
FreeLock == [holder |-> 0, poisoned |-> FALSE]
NoResult == [kind |-> None]

\* The state of a process in which no build is running.
IdleBuild ==
    /\ mainPc = "idle"
    /\ useCache = FALSE
    /\ templateHash = NoHash
    /\ metadata = Nil
    /\ toSend = <<>>
    /\ queue = <<>>
    /\ senderOpen = FALSE
    /\ workLock = FreeLock
    /\ cacheLock = FreeLock
    /\ wpc = [w \in Workers |-> "unspawned"]
    /\ wpath = [w \in Workers |-> 0]
    /\ wres = [w \in Workers |-> NoResult]
    /\ progress = [built |-> 0, skipped |-> 0]
    /\ chan = <<>>
    /\ mainTx = FALSE
    /\ results = <<>>
    /\ errors = <<>>
    /\ outcome = None
    /\ saves = 0
    /\ recvCount = [p \in Paths |-> 0]
    /\ procCount = [p \in Paths |-> 0]
    /\ faulty = {}
    /\ postPath = 0
    /\ written = {}

\* The content and theme directories as first written, nothing persisted,
\* no build running.
InitStore ==
    /\ files = [p \in Paths |-> [ver |-> 1, draft |-> FALSE]]
    /\ theme = 1
    /\ diskCache = Nil
    /\ diskMeta = Nil
    /\ now = 0
    /\ cache = BuildCache_new
    /\ lastWrite = [p \in Paths |-> Nil]
    /\ updates = 0
    /\ run = 0
    /\ edits = 0
    /\ prev = Nil
    /\ IdleBuild

\* ------------------------------------------- BuildCache in isolation
InitCache ==
    /\ InitStore
    /\ arg = Nil
    /\ ret = Nil

\* One call cache.update_entry(path, hash, template_hash, output).
UpdateEntry(path, hash, th, output) ==
    /\ updates < MaxUpdates
    /\ cache' = update_entry(cache, path, hash, th, output, now)
    /\ lastWrite' = [lastWrite EXCEPT ![path] =
                        [file_hash |-> hash, template_hash |-> th]]
    /\ updates' = updates + 1
    /\ now' = now + 1
    /\ UNCHANGED <<diskVars, buildVars>>

NextCache ==
    \E path \in Paths, hash \in FileHashes, th \in TemplateHashes :
        UpdateEntry(path, hash, th, get_post_path(path))

SpecCache == InitCache /\ [][NextCache]_vars

\* --------------------------------------------------------- MetadataCache
\* metadata.rs MetadataCache::new
MetadataCache_new == [posts |-> <<>>]

\* An upsert_post that pushes without removing the old entry of the slug.
upsert_post_push(m, slug, frontmatter) ==
    [m EXCEPT !.posts =
        Append(m.posts, [slug |-> slug, frontmatter |-> frontmatter])]

\* metadata.rs MetadataCache::upsert_post (retain, then push)
upsert_post(m, slug, frontmatter) ==
    [m EXCEPT !.posts =
        Append(SelectSeq(m.posts, LAMBDA x : x.slug # slug),
               [slug |-> slug, frontmatter |-> frontmatter])]


\* BuildCache::load that never reads the persisted document.
BuildCache_load_fresh(disk) == BuildCache_new

\* cache.rs BuildCache::load (the document is absent or parses)
BuildCache_load(disk) == IF disk = Nil THEN BuildCache_new ELSE disk

\* main.rs: MetadataCache::load().unwrap_or_else(|_| MetadataCache::new())
MetadataCache_load(disk) ==
    IF disk = Nil THEN MetadataCache_new ELSE disk

\* ----------------------------------------------------------- BuildResult
\* parallel.rs BuildResult::Success
Success(path, content, file_hash, template_hash) ==
    [kind |-> "Success", path |-> path, slug |-> path_to_slug(path),
     frontmatter |-> content, file_hash |-> file_hash,
     template_hash |-> template_hash, output_path |-> get_post_path(path)]

\* parallel.rs BuildResult::Skipped with SkipReason::{Cached, Draft}
Skipped(path, reason) == [kind |-> "Skipped", path |-> path, reason |-> reason]

\* e.to_string() of a failed step; the text of the message is not modelled.
to_string(step) == "error"

\* parallel.rs BuildResult::Error
Error(path, step) == [kind |-> "Error", path |-> path, error |-> to_string(step)]

\* Steps of the per-file pipeline that can fail after the cache check.
FailSteps == {"parse", "shortcode", "render", "write"}

\* process_post_parallel without the draft check.
process_parsed_no_draft(path, content, file_hash, template_hash, failAt) ==
    IF failAt \in {"parse", "shortcode", "render", "write"}
    THEN Error(path, failAt)
    ELSE Success(path, content, file_hash, template_hash)

\* main.rs process_post_parallel from "Parse post" to the end: failAt names
\* the step whose Result is Err in this call (None: every step succeeds).
process_parsed(path, content, file_hash, template_hash, failAt) ==
    IF failAt = "parse" THEN Error(path, "parse")
    ELSE IF content.draft THEN Skipped(path, "Draft")
    ELSE IF failAt = "shortcode" THEN Error(path, "shortcode")
    ELSE IF failAt = "render" THEN Error(path, "render")
    ELSE IF failAt = "write" THEN Error(path, "write")
    ELSE Success(path, content, file_hash, template_hash)

\* main.rs build_all_parallel, "Update metadata and cache from results":
\* the loop over the results Vec.
RECURSIVE aggregate(_, _, _, _, _)
aggregate(rs, c, m, errs, t) ==
    IF rs = <<>>
    THEN [cache |-> c, metadata |-> m, errors |-> errs]
    ELSE LET r == Head(rs) IN
         IF r.kind = "Success"
         THEN aggregate(Tail(rs),
                        update_entry(c, r.path, r.file_hash, r.template_hash,
                                     r.output_path, t),
                        upsert_post(m, r.slug, r.frontmatter), errs, t)
         ELSE IF r.kind = "Skipped"
         THEN aggregate(Tail(rs), c, m, errs, t)
         ELSE aggregate(Tail(rs), c, m, Append(errs, <<r.path, r.error>>), t)

\* ------------------------------------------------------------ main thread
Running == outcome = "running"
Terminal == {"done", "gen_failed", "panicked"}

\* A result channel that counts as closed while senders are alive.
AllTerminated_any == TRUE

AllTerminated == \A w \in Workers : wpc[w] \in Terminal

\* Result kind of a path among a sequence of results (None: no result).
KindOf(r) == IF r.kind = "Skipped" THEN r.reason ELSE r.kind
ResultsFor(rs, p) == {i \in 1..Len(rs) : rs[i].path = p}
Produced == results \o chan

\* main.rs walk of the content directory: the discovered file_paths.
file_paths == [i \in 1..NumPaths |-> i]

\* main.rs build_all_parallel up to "Collect all post files": config,
\* template hash, metadata and cache are loaded, the paths are discovered.
StartBuild(inc) ==
    /\ mainPc = "idle"
    /\ run < MaxRuns
    /\ run' = run + 1
    /\ now' = now + 1
    /\ useCache' = inc
    /\ templateHash' = hash_directory(theme)
    /\ metadata' = IF inc THEN MetadataCache_load(diskMeta) ELSE MetadataCache_new
    /\ cache' = IF inc THEN BuildCache_load(diskCache) ELSE BuildCache_new
    /\ toSend' = file_paths
    /\ senderOpen' = TRUE
    /\ mainTx' = TRUE
    /\ outcome' = "running"
    /\ mainPc' = "send"
    /\ UNCHANGED <<diskVars, lastWrite, updates, edits, queue, poolVars, chan,
                   results, errors, saves, prev, postPath, written, arg, ret>>

\* parallel.rs WorkQueue::send, called for each path.
Send ==
    /\ Running /\ mainPc = "send"
    /\ toSend # <<>>
    /\ queue' = Append(queue, Head(toSend))
    /\ toSend' = Tail(toSend)
    /\ UNCHANGED <<diskVars, cacheVars, run, edits, mainPc, useCache,
                   templateHash, metadata, senderOpen, poolVars, chan, mainTx,
                   results, errors, outcome, saves,
                   prev, postPath, written, arg, ret>>

\* A close that keeps the sender of the work queue.
WorkQueue_close_keep(open) == open

\* parallel.rs WorkQueue::close: drop(self.sender); the result is whether a
\* sender of the work queue is left.
WorkQueue_close(open) == FALSE

\* main.rs: work_queue.close() after the last send.
Close ==
    /\ Running /\ mainPc = "send"
    /\ toSend = <<>>
    /\ senderOpen' = WorkQueue_close(senderOpen)
    /\ mainPc' = "spawn"
    /\ UNCHANGED <<diskVars, cacheVars, run, edits, useCache, templateHash,
                   metadata, toSend, queue, poolVars, chan, mainTx, results,
                   errors, outcome, saves, prev, postPath, written, arg, ret>>

\* main.rs "Spawn worker threads": the loop of WorkerPool::spawn calls, each
\* closure owning a clone of result_tx, and drop(result_tx).  A thread that
\* is spawned and has not run yet is at "init".
Spawn ==
    /\ Running /\ mainPc = "spawn"
    /\ wpc' = [w \in Workers |-> "init"]
    /\ mainTx' = FALSE
    /\ mainPc' = "collect"
    /\ UNCHANGED <<diskVars, cacheVars, run, edits, useCache, templateHash,
                   metadata, toSend, queue, senderOpen, chan, workLock,
                   cacheLock, wpath, wres, progress, recvCount, procCount,
                   faulty,
                   results, errors, outcome, saves,
                   prev, postPath, written, arg, ret>>

\* main.rs: one iteration of "for result in result_rx".
Collect ==
    /\ Running /\ mainPc = "collect"
    /\ chan # <<>>
    /\ results' = Append(results, Head(chan))
    /\ chan' = Tail(chan)
    /\ UNCHANGED <<diskVars, cacheVars, run, edits, mainPc, useCache,
                   templateHash, metadata, toSend, queue, senderOpen, mainTx,
                   poolVars, errors, outcome, saves,
                   prev, postPath, written, arg, ret>>

\* main.rs: the result channel is empty and every sender is dropped.
CollectEnd ==
    /\ Running /\ mainPc = "collect"
    /\ chan = <<>>
    /\ ~mainTx
    /\ AllTerminated
    /\ mainPc' = "join"
    /\ UNCHANGED <<diskVars, cacheVars, run, edits, useCache, templateHash,
                   metadata, chanVars, poolVars, results, errors, outcome,
                   saves, prev, postPath, written, arg, ret>>

\* WorkerPool::join that swallows the panic of a joined thread.
join_swallow == "Ok"

\* parallel.rs WorkerPool::join: Err when a joined thread panicked.
join == IF \E w \in Workers : wpc[w] = "panicked"
        THEN "Worker thread panicked" ELSE "Ok"

\* main.rs: pool.join().map_err(..)?
Join ==
    /\ Running /\ mainPc = "join"
    /\ AllTerminated
    /\ IF join = "Ok"
       THEN mainPc' = "aggregate" /\ outcome' = outcome
       ELSE mainPc' = "exit" /\ outcome' = "worker_panicked"
    /\ UNCHANGED <<diskVars, cacheVars, run, edits, useCache, templateHash,
                   metadata, chanVars, poolVars, results, errors, saves,
                   prev, postPath, written, arg, ret>>

\* main.rs: the aggregation loop over results (cache.lock().unwrap() is
\* taken and released for each Success).
Aggregate ==
    /\ Running /\ mainPc = "aggregate"
    /\ LET a == aggregate(results, cache, metadata, <<>>, now) IN
        /\ cache' = a.cache
        /\ metadata' = a.metadata
        /\ errors' = a.errors
    /\ mainPc' = "bail"
    /\ UNCHANGED <<diskVars, lastWrite, updates, now, run, edits, useCache,
                   templateHash, chanVars, poolVars, results, outcome, saves,
                   prev, postPath, written, arg, ret>>

\* An aggregation that never bails.
ShouldBail_never(errs) == FALSE

\* main.rs: if !errors.is_empty() { bail!(..) }
ShouldBail(errs) == errs # <<>>

Bail ==
    /\ Running /\ mainPc = "bail"
    /\ IF ShouldBail(errors)
       THEN mainPc' = "exit" /\ outcome' = "posts_failed"
       ELSE mainPc' = "save_cache" /\ outcome' = outcome
    /\ UNCHANGED <<diskVars, cacheVars, run, edits, useCache, templateHash,
                   metadata, chanVars, poolVars, results, errors, saves,
                   prev, postPath, written, arg, ret>>

\* main.rs "Save cache": cache.lock().unwrap().save()? under "if use_cache";
\* ok is whether BuildCache::save returned Ok (an Err leaves the document
\* as it was).
SaveCache(ok) ==
    /\ Running /\ mainPc = "save_cache"
    /\ IF ~useCache
       THEN /\ ok
            /\ UNCHANGED <<diskCache, saves, outcome>>
            /\ mainPc' = "save_meta"
       ELSE /\ diskCache' = IF ok THEN cache ELSE diskCache
            /\ saves' = IF ok THEN saves + 1 ELSE saves
            /\ IF ok
               THEN mainPc' = "save_meta" /\ outcome' = outcome
               ELSE mainPc' = "exit" /\ outcome' = "save_failed"
    /\ UNCHANGED <<files, theme, diskMeta, cacheVars, run, edits, useCache,
                   templateHash, metadata, chanVars, poolVars, results,
                   errors, prev, postPath, written, arg, ret>>

\* main.rs: metadata.save()?; the post sweep ends here.
SaveMeta(ok) ==
    /\ Running /\ mainPc = "save_meta"
    /\ diskMeta' = IF ok THEN metadata ELSE diskMeta
    /\ outcome' = IF ok THEN "ok" ELSE "save_failed"
    /\ mainPc' = "exit"
    /\ UNCHANGED <<files, theme, diskCache, cacheVars, run, edits, useCache,
                   templateHash, metadata, chanVars, poolVars, results,
                   errors, saves, prev, postPath, written, arg, ret>>

\* --------------------------------------------------------- worker threads
Active == {"init", "lock", "recv", "hash", "check", "process", "send"}

\* A guard that is kept where the source drops it.
Release_keep(lock, w, panicking) == lock

\* std::sync::Mutex: a guard dropped during a panic poisons the mutex.
Release(lock, w, panicking) ==
    IF lock.holder = w
    THEN [holder |-> 0, poisoned |-> lock.poisoned \/ panicking]
    ELSE lock

\* main.rs worker closure: Renderer::new and Generator::new; on Err the
\* closure prints the error and returns.
WInit(w, ok) ==
    /\ Running /\ wpc[w] = "init"
    /\ wpc' = [wpc EXCEPT ![w] = IF ok THEN "lock" ELSE "gen_failed"]
    /\ UNCHANGED <<diskVars, cacheVars, run, edits, mainPc, useCache,
                   templateHash, metadata, chanVars, workLock, cacheLock,
                   wpath, wres, progress, recvCount, procCount, faulty, results,
                   errors, outcome, saves, prev, postPath, written, arg, ret>>

\* main.rs worker loop: work_rx.lock().unwrap()
WLock(w) ==
    /\ Running /\ wpc[w] = "lock"
    /\ workLock.holder = 0
    /\ IF workLock.poisoned
       THEN wpc' = [wpc EXCEPT ![w] = "panicked"] /\ UNCHANGED workLock
       ELSE /\ wpc' = [wpc EXCEPT ![w] = "recv"]
            /\ workLock' = [workLock EXCEPT !.holder = w]
    /\ UNCHANGED <<diskVars, cacheVars, run, edits, mainPc, useCache,
                   templateHash, metadata, chanVars, cacheLock, wpath, wres,
                   progress, recvCount, procCount, faulty, results, errors,
                   outcome,
                   saves, prev, postPath, written, arg, ret>>

\* main.rs worker loop: rx.recv().ok(), the guard is dropped at the end of
\* the block; None ends the loop and the closure (dropping its result_tx).
WRecv(w) ==
    /\ Running /\ wpc[w] = "recv"
    /\ queue # <<>> \/ ~senderOpen
    /\ IF queue # <<>>
       THEN /\ wpath' = [wpath EXCEPT ![w] = Head(queue)]
            /\ queue' = Tail(queue)
            /\ recvCount' = [recvCount EXCEPT ![Head(queue)] = @ + 1]
            /\ wpc' = [wpc EXCEPT ![w] = "hash"]
       ELSE /\ wpc' = [wpc EXCEPT ![w] = "done"]
            /\ UNCHANGED <<wpath, queue, recvCount>>
    /\ workLock' = Release(workLock, w, FALSE)
    /\ UNCHANGED <<diskVars, cacheVars, run, edits, mainPc, useCache,
                   templateHash, metadata, toSend, senderOpen, chan, mainTx,
                   cacheLock, wres, progress, procCount, faulty, results, errors,
                   outcome, saves, prev, postPath, written, arg, ret>>

\* Position of a worker after "Hash file" succeeded.
AfterHash(uc) == IF uc THEN "check" ELSE "process"

\* main.rs process_post_parallel, "Hash file" and, under use_cache,
\* cache.lock().unwrap(): ok is whether hash_file returned Ok.  A worker
\* whose hash is Ok waits here until the cache mutex is free.  The content
\* directory does not change during a build, so file_hash is
\* hash_file(files[path]) wherever it is used later.
WHash(w, ok) ==
    /\ Running /\ wpc[w] = "hash"
    /\ (ok /\ useCache) => cacheLock.holder = 0
    /\ procCount' = [procCount EXCEPT ![wpath[w]] = @ + 1]
    /\ faulty' = IF ok THEN faulty ELSE faulty \cup {wpath[w]}
    /\ IF ~ok
       THEN /\ wpc' = [wpc EXCEPT ![w] = "send"]
            /\ wres' = [wres EXCEPT ![w] = Error(wpath[w], "hash")]
            /\ UNCHANGED cacheLock
       ELSE /\ UNCHANGED wres
            /\ IF useCache /\ cacheLock.poisoned
               THEN /\ wpc' = [wpc EXCEPT ![w] = "panicked"]
                    /\ UNCHANGED cacheLock
               ELSE /\ wpc' = [wpc EXCEPT ![w] = AfterHash(useCache)]
                    /\ cacheLock' = IF useCache
                                    THEN [cacheLock EXCEPT !.holder = w]
                                    ELSE cacheLock
    /\ UNCHANGED <<diskVars, cacheVars, run, edits, mainPc, useCache,
                   templateHash, metadata, chanVars, workLock, wpath,
                   progress, recvCount, results, errors, outcome, saves,
                   prev, postPath, written, arg, ret>>

\* main.rs process_post_parallel, "Check cache": needs_rebuild under the
\* guard, which is dropped at the end of the block.
WCheck(w) ==
    /\ Running /\ wpc[w] = "check"
    /\ IF ~needs_rebuild(cache, wpath[w], hash_file(files[wpath[w]]),
                         templateHash)
       THEN /\ wres' = [wres EXCEPT ![w] = Skipped(wpath[w], "Cached")]
            /\ wpc' = [wpc EXCEPT ![w] = "send"]
       ELSE /\ wpc' = [wpc EXCEPT ![w] = "process"]
            /\ UNCHANGED wres
    /\ cacheLock' = Release(cacheLock, w, FALSE)
    /\ UNCHANGED <<diskVars, cacheVars, run, edits, mainPc, useCache,
                   templateHash, metadata, chanVars, workLock, wpath,
                   progress, recvCount, procCount, faulty, results, errors,
                   outcome,
                   saves, prev, postPath, written, arg, ret>>

\* main.rs process_post_parallel, "Parse post" to the returned BuildResult.
WProcess(w, failAt) ==
    /\ Running /\ wpc[w] = "process"
    /\ wres' = [wres EXCEPT ![w] =
                   process_parsed(wpath[w], files[wpath[w]],
                                  hash_file(files[wpath[w]]), templateHash,
                                  failAt)]
    /\ faulty' = IF failAt = None THEN faulty ELSE faulty \cup {wpath[w]}
    /\ written' = IF wres'[w].kind = "Success"
                  THEN written \cup {wres'[w].output_path}
                  ELSE written
    /\ wpc' = [wpc EXCEPT ![w] = "send"]
    /\ UNCHANGED <<diskVars, cacheVars, run, edits, mainPc, useCache,
                   templateHash, metadata, chanVars, workLock, cacheLock,
                   wpath, progress, recvCount, procCount, results, errors,
                   outcome, saves, prev, postPath, arg, ret>>

\* A worker loop that ends when a file fails.
AfterSend_stop(r) == IF r.kind = "Error" THEN "done" ELSE "lock"

\* Position of a worker after it sent the result r.
AfterSend(r) == "lock"

\* main.rs worker loop: the progress counters and result_tx.send(result).
WSend(w) ==
    /\ Running /\ wpc[w] = "send"
    /\ progress' = CASE wres[w].kind = "Success" ->
                            [progress EXCEPT !.built = @ + 1]
                     [] wres[w].kind = "Skipped" ->
                            [progress EXCEPT !.skipped = @ + 1]
                     [] OTHER -> progress
    /\ chan' = Append(chan, wres[w])
    /\ wres' = [wres EXCEPT ![w] = NoResult]
    /\ wpath' = [wpath EXCEPT ![w] = 0]
    /\ wpc' = [wpc EXCEPT ![w] = AfterSend(wres[w])]
    /\ UNCHANGED <<diskVars, cacheVars, run, edits, mainPc, useCache,
                   templateHash, metadata, toSend, queue, senderOpen, mainTx,
                   workLock, cacheLock, recvCount, procCount, faulty, results,
                   errors,
                   outcome, saves, prev, postPath, written, arg, ret>>

\* Positions at which a panic is modelled: inside Renderer / Generator
\* setup, while the work-queue guard is held, while the cache guard is held
\* and inside the per-file pipeline with no guard held.
PanicPoints == {"init", "recv", "check", "process"}

\* A panic in a worker thread: the stack unwinds, guards held are dropped
\* (poisoning their mutex) and the thread's result_tx is dropped.
WPanic(w) ==
    /\ Running /\ wpc[w] \in PanicPoints
    /\ wpc' = [wpc EXCEPT ![w] = "panicked"]
    /\ workLock' = Release(workLock, w, TRUE)
    /\ cacheLock' = Release(cacheLock, w, TRUE)
    /\ wres' = [wres EXCEPT ![w] = NoResult]
    /\ wpath' = [wpath EXCEPT ![w] = 0]
    /\ UNCHANGED <<diskVars, cacheVars, run, edits, mainPc, useCache,
                   templateHash, metadata, chanVars, progress, recvCount,
                   procCount, faulty, results, errors, outcome, saves,
                   prev, postPath, written, arg, ret>>

\* ------------------------------------------------------------ environment
\* Summary of a finished build kept for the next one: the content and
\* theme it saw, when it was incremental, ended Ok and every path has a
\* result.
Summary ==
    IF /\ outcome = "ok" /\ useCache
       /\ \A p \in Paths : ResultsFor(results, p) # {}
    THEN [files |-> files, theme |-> theme]
    ELSE Nil

ResetBuild ==
    /\ mainPc' = "idle"
    /\ useCache' = FALSE
    /\ templateHash' = NoHash
    /\ metadata' = Nil
    /\ cache' = BuildCache_new
    /\ toSend' = <<>>
    /\ queue' = <<>>
    /\ senderOpen' = FALSE
    /\ workLock' = FreeLock
    /\ cacheLock' = FreeLock
    /\ wpc' = [w \in Workers |-> "unspawned"]
    /\ wpath' = [w \in Workers |-> 0]
    /\ wres' = [w \in Workers |-> NoResult]
    /\ progress' = [built |-> 0, skipped |-> 0]
    /\ chan' = <<>>
    /\ mainTx' = FALSE
    /\ results' = <<>>
    /\ errors' = <<>>
    /\ outcome' = None
    /\ saves' = 0
    /\ recvCount' = [p \in Paths |-> 0]
    /\ procCount' = [p \in Paths |-> 0]
    /\ faulty' = {}
    /\ postPath' = 0
    /\ written' = {}

\* The process exits after build_all_parallel returned.
Exit ==
    /\ mainPc = "exit"
    /\ prev' = Summary
    /\ ResetBuild
    /\ UNCHANGED <<diskVars, lastWrite, updates, now, run, edits, arg, ret>>

\* The process is terminated from outside while the build runs.
Kill ==
    /\ Running /\ mainPc \notin {"idle", "exit"}
    /\ prev' = Nil
    /\ ResetBuild
    /\ UNCHANGED <<diskVars, lastWrite, updates, now, run, edits, arg, ret>>

\* ------------------------------------------------- build --post <path>
\* Arguments of --post: the content files and a path that does not exist.
NoSuchPath == NumPaths + 1
PostArgs == Paths \cup {NoSuchPath}

\* A build_single_post that skips a post whose cache entry is current.
post_needs_build_cached(disk, path, current_hash, current_template_hash) ==
    needs_rebuild(BuildCache_load(disk), path, current_hash,
                  current_template_hash)

\* main.rs build_single_post: nothing stands between path.exists() and
\* Parser::parse_file, no BuildCache is constructed: the post is processed
\* whatever the persisted cache holds.
post_needs_build(disk, path, current_hash, current_template_hash) == TRUE

\* main.rs main (Build dispatch, post = Some) and build_single_post up to
\* path.exists(): load_config, Generator::new, MetadataCache::load and
\* plugin init; ok is whether all of them returned Ok.
PostStart(path, ok) ==
    /\ mainPc = "idle"
    /\ run < MaxRuns
    /\ run' = run + 1
    /\ postPath' = path
    /\ IF ok /\ path \in Paths
       THEN /\ metadata' = MetadataCache_load(diskMeta)
            /\ mainPc' = "post_build"
            /\ outcome' = "running"
       ELSE /\ UNCHANGED metadata
            /\ mainPc' = "post_exit"
            /\ outcome' = "post_failed"
    /\ UNCHANGED <<diskVars, cacheVars, edits, useCache, templateHash,
                   chanVars, poolVars, results, errors, saves, prev, written,
                   arg, ret>>

\* A build_single_post that returns at a draft.
post_draft_skipped_return(content) == content.draft

\* main.rs build_single_post: "if post.frontmatter.draft { println!(..) }"
\* prints a warning and goes on; the result is whether the post is skipped.
post_draft_skipped(content) == FALSE

\* main.rs build_single_post from Parser::parse_file to generate_post, on
\* the calling thread; a draft is built like any other post.  failAt names
\* the step whose Result is Err (None: every step succeeds).
PostBuild(failAt) ==
    /\ Running /\ mainPc = "post_build"
    /\ IF \/ ~post_needs_build(diskCache, postPath,
                               hash_file(files[postPath]),
                               hash_directory(theme))
          \/ post_draft_skipped(files[postPath])
       THEN /\ failAt = None
            /\ outcome' = "ok"
            /\ UNCHANGED <<written, faulty>>
       ELSE IF failAt = None
       THEN /\ written' = written \cup {get_post_path(postPath)}
            /\ outcome' = "ok"
            /\ UNCHANGED faulty
       ELSE /\ faulty' = faulty \cup {postPath}
            /\ outcome' = "post_failed"
            /\ UNCHANGED written
    /\ mainPc' = "post_exit"
    /\ UNCHANGED <<diskVars, cacheVars, run, edits, useCache, templateHash,
                   metadata, chanVars, workLock, cacheLock, wpc, wpath, wres,
                   progress, recvCount, procCount, results, errors, saves,
                   prev, postPath, arg, ret>>

\* The process exits after build_single_post returned.
PostExit ==
    /\ mainPc = "post_exit"
    /\ ResetBuild
    /\ UNCHANGED <<diskVars, lastWrite, updates, now, run, edits, prev, arg,
                   ret>>

\* The author edits a content file between two builds.
EditFile(p, c) ==
    /\ mainPc = "idle"
    /\ edits < MaxEdits
    /\ c # files[p]
    /\ files' = [files EXCEPT ![p] = c]
    /\ edits' = edits + 1
    /\ UNCHANGED <<theme, diskCache, diskMeta, cacheVars, run, mainPc,
                   useCache, templateHash, metadata, chanVars, poolVars,
                   results, errors, outcome, saves,
                   prev, postPath, written, arg, ret>>

\* The theme directory changes between two builds.
EditTheme(t) ==
    /\ mainPc = "idle"
    /\ edits < MaxEdits
    /\ t # theme
    /\ theme' = t
    /\ edits' = edits + 1
    /\ UNCHANGED <<files, diskCache, diskMeta, cacheVars, run, mainPc,
                   useCache, templateHash, metadata, chanVars, poolVars,
                   results, errors, outcome, saves,
                   prev, postPath, written, arg, ret>>

\* ---------------------------------------------------------- specification
Init == InitCache

MainStep ==
    \/ \E inc \in BOOLEAN : StartBuild(inc)
    \/ Send
    \/ Close
    \/ Spawn
    \/ Collect
    \/ CollectEnd
    \/ Join
    \/ Aggregate
    \/ Bail
    \/ \E ok \in BOOLEAN : SaveCache(ok)
    \/ \E ok \in BOOLEAN : SaveMeta(ok)
    \/ Exit
    \/ \E path \in PostArgs, ok \in BOOLEAN : PostStart(path, ok)
    \/ \E failAt \in FailSteps \cup {None} : PostBuild(failAt)
    \/ PostExit

WorkerStep(w) ==
    \/ \E ok \in BOOLEAN : WInit(w, ok)
    \/ WLock(w)
    \/ WRecv(w)
    \/ \E ok \in BOOLEAN : WHash(w, ok)
    \/ WCheck(w)
    \/ \E failAt \in FailSteps \cup {None} : WProcess(w, failAt)
    \/ WSend(w)
    \/ WPanic(w)

EnvStep ==
    \/ Kill
    \/ \E p \in Paths, c \in Contents : EditFile(p, c)
    \/ \E t \in Themes : EditTheme(t)

Next ==
    \/ MainStep
    \/ \E w \in Workers : WorkerStep(w)
    \/ EnvStep

Spec == Init /\ [][Next]_vars

\* ------------------------------------------------- one build, scheduled
\* One build_all_parallel run of the process, from its start to its exit.
StartOnce(inc) == run = 0 /\ StartBuild(inc)

MainBuild ==
    \/ \E inc \in BOOLEAN : StartOnce(inc)
    \/ Send
    \/ Close
    \/ Spawn
    \/ Collect
    \/ CollectEnd
    \/ Join
    \/ Aggregate
    \/ Bail
    \/ \E ok \in BOOLEAN : SaveCache(ok)
    \/ \E ok \in BOOLEAN : SaveMeta(ok)
    \/ Exit

\* The steps of a worker thread that does not panic.
WorkerRun(w) ==
    \/ \E ok \in BOOLEAN : WInit(w, ok)
    \/ WLock(w)
    \/ WRecv(w)
    \/ \E ok \in BOOLEAN : WHash(w, ok)
    \/ WCheck(w)
    \/ \E failAt \in FailSteps \cup {None} : WProcess(w, failAt)
    \/ WSend(w)

NextLive ==
    \/ MainBuild
    \/ \E w \in Workers : WorkerRun(w)
    \/ \E w \in Workers : WPanic(w)

\* The operating system's scheduler: a thread that can take a step and
\* stays able to do so takes one.  A panic is never owed.
Fairness ==
    /\ WF_vars(MainBuild)
    /\ \A w \in Workers : WF_vars(WorkerRun(w))

SpecLive == Init /\ [][NextLive]_vars /\ Fairness

\* =============================================================== Renderer
\* Strings are sequences of one-character strings.
starts_with(s, prefix) ==
    Len(s) >= Len(prefix) /\ SubSeq(s, 1, Len(prefix)) = prefix
ends_with(s, suffix) ==
    /\ Len(s) >= Len(suffix)
    /\ SubSeq(s, Len(s) - Len(suffix) + 1, Len(s)) = suffix

RECURSIVE Concat(_)
Concat(ss) == IF ss = <<>> THEN <<>> ELSE Head(ss) \o Concat(Tail(ss))

\* The sequences of at most n elements of T.
SeqsUpTo(T, n) == UNION {[1..k -> T] : k \in 0..n}

\* str::trim_start_matches, str::trim_end_matches, str::trim_matches
RECURSIVE trim_start_matches(_, _)
trim_start_matches(s, ch) ==
    IF s # <<>> /\ Head(s) = ch THEN trim_start_matches(Tail(s), ch) ELSE s

RECURSIVE trim_end_matches(_, _)
trim_end_matches(s, ch) ==
    IF s # <<>> /\ s[Len(s)] = ch
    THEN trim_end_matches(SubSeq(s, 1, Len(s) - 1), ch)
    ELSE s

\* trim_matches that removes nothing.
trim_matches_none(s, ch) == s

trim_matches(s, ch) == trim_end_matches(trim_start_matches(s, ch), ch)

\* str::trim; a space is the only whitespace of the strings modelled.
trim(s) == trim_end_matches(trim_start_matches(s, " "), " ")

\* str::split(ch): the pieces between the occurrences of ch.
RECURSIVE split(_, _)
split(s, ch) ==
    LET hits == {i \in 1..Len(s) : s[i] = ch} IN
    IF hits = {} THEN <<s>>
    ELSE LET i == CHOOSE k \in hits : \A m \in hits : k <= m
         IN <<SubSeq(s, 1, i - 1)>> \o split(SubSeq(s, i + 1, Len(s)), ch)

\* [&str]::join(sep)
RECURSIVE join_with(_, _)
join_with(parts, sep) ==
    IF parts = <<>> THEN <<>>
    ELSE IF Len(parts) = 1 THEN parts[1]
    ELSE parts[1] \o sep \o join_with(Tail(parts), sep)

\* -------------------------------------------------------- resolve_path
Slash == <<"/">>
HttpScheme == <<"h", "t", "t", "p", ":", "/", "/">>
HttpsScheme == <<"h", "t", "t", "p", "s", ":", "/", "/">>
DataScheme == <<"d", "a", "t", "a", ":">>
MailtoScheme == <<"m", "a", "i", "l", "t", "o", ":">>
DotSlash == <<".", "/">>
DotDotSlash == <<".", ".", "/">>
DotDot == <<".", ".">>

\* The first test of resolve_path without the mailto: scheme.
is_external_no_mailto(trimmed) ==
    \/ starts_with(trimmed, HttpScheme)
    \/ starts_with(trimmed, HttpsScheme)
    \/ starts_with(trimmed, <<"/", "/">>)
    \/ starts_with(trimmed, <<"#">>)
    \/ starts_with(trimmed, DataScheme)

\* renderer.rs resolve_path: the first test (absolute URL, fragment, data:,
\* mailto:).
is_external(trimmed) ==
    \/ starts_with(trimmed, HttpScheme)
    \/ starts_with(trimmed, HttpsScheme)
    \/ starts_with(trimmed, <<"/", "/">>)
    \/ starts_with(trimmed, <<"#">>)
    \/ starts_with(trimmed, DataScheme)
    \/ starts_with(trimmed, MailtoScheme)

\* renderer.rs resolve_path: number of leading ".." parts (the while loop).
RECURSIVE count_up(_)
count_up(path_parts) ==
    IF path_parts # <<>> /\ path_parts[1] = DotDot
    THEN 1 + count_up(Tail(path_parts))
    ELSE 0

\* remaining_base that drops one segment whatever up_count is.
pop_segments_one(base_parts, up_count) ==
    IF 1 >= Len(base_parts) THEN <<>>
    ELSE SubSeq(base_parts, 1, Len(base_parts) - 1)

\* renderer.rs resolve_path: remaining_base, the base segments left after
\* up_count of them are dropped from the end.
pop_segments(base_parts, up_count) ==
    IF up_count >= Len(base_parts) THEN <<>>
    ELSE SubSeq(base_parts, 1, Len(base_parts) - up_count)

\* A resolve_path that joins a relative value to the base path without the
\* leading '/'.
resolve_path_no_root(path, base_path) ==
    LET trimmed == trim(path) IN
    IF is_external(trimmed) \/ starts_with(trimmed, Slash) THEN trimmed
    ELSE trim_matches(base_path, "/") \o Slash \o trimmed

\* renderer.rs resolve_path
resolve_path(path, base_path) ==
    LET trimmed == trim(path) IN
    IF is_external(trimmed) THEN trimmed
    ELSE IF starts_with(trimmed, Slash) THEN trimmed
    ELSE IF starts_with(trimmed, DotSlash)
    THEN Slash \o trim_matches(base_path, "/") \o Slash
            \o SubSeq(trimmed, 3, Len(trimmed))
    ELSE IF starts_with(trimmed, DotDotSlash)
    THEN LET base_parts == split(trim_matches(base_path, "/"), "/")
             all_parts == split(trimmed, "/")
             up_count == count_up(all_parts)
             path_parts == SubSeq(all_parts, up_count + 1, Len(all_parts))
             remaining_base == pop_segments(base_parts, up_count)
         IN Slash
            \o (IF remaining_base # <<>>
                THEN join_with(remaining_base, Slash) \o Slash ELSE <<>>)
            \o join_with(path_parts, Slash)
    ELSE Slash \o trim_matches(base_path, "/") \o Slash \o trimmed

\* --------------------------------------------------- extract_attributes
TrueMarker == <<"t", "r", "u", "e">>
Quotes == {"\"", "'"}

\* The empty HashMap, and HashMap::insert.
NoAttrs == [k \in {} |-> <<>>]
insert(attrs, key, value) ==
    [k \in (DOMAIN attrs) \cup {key} |-> IF k = key THEN value ELSE attrs[k]]

\* First index at or after i whose character is in stop (Len(cs) + 1 when
\* there is none): a loop of the form "while let Some(&ch) = chars.peek()".
RECURSIVE scan_until(_, _, _)
scan_until(cs, i, stop) ==
    IF i > Len(cs) \/ cs[i] \in stop THEN i ELSE scan_until(cs, i + 1, stop)

\* while chars.peek() == Some(&' ') { chars.next(); }
RECURSIVE skip_spaces(_, _)
skip_spaces(cs, i) ==
    IF i <= Len(cs) /\ cs[i] = " " THEN skip_spaces(cs, i + 1) ELSE i

\* The first statement of extract_attributes without trim_end_matches('/').
trim_tag_keep_slash(tag) ==
    trim_end_matches(trim_start_matches(tag, "<"), ">")

\* renderer.rs extract_attributes: the first statement.
trim_tag(tag) ==
    trim_end_matches(trim_end_matches(trim_start_matches(tag, "<"), ">"), "/")

\* renderer.rs extract_attributes: the loop over attr_string from index i.
RECURSIVE parse_attrs(_, _, _)
parse_attrs(cs, i, attrs) ==
    IF i > Len(cs) THEN attrs
    ELSE
    LET i1 == skip_spaces(cs, i)
        ke == scan_until(cs, i1, {"=", " "})
        key == SubSeq(cs, i1, ke - 1)
        i2 == skip_spaces(cs, ke)
        i3 == skip_spaces(cs, i2 + 1)
    IN  IF key = <<>> THEN attrs
        ELSE IF i2 > Len(cs) \/ cs[i2] # "="
        THEN parse_attrs(cs, i2, insert(attrs, key, TrueMarker))
        ELSE IF i3 > Len(cs) THEN insert(attrs, key, <<>>)
        ELSE IF cs[i3] \in Quotes
        THEN LET qe == scan_until(cs, i3 + 1, {cs[i3]})
             IN parse_attrs(cs, IF qe <= Len(cs) THEN qe + 1 ELSE qe,
                            insert(attrs, key, SubSeq(cs, i3 + 1, qe - 1)))
        ELSE LET ve == scan_until(cs, i3, {" "})
             IN parse_attrs(cs, ve, insert(attrs, key, SubSeq(cs, i3, ve - 1)))

\* renderer.rs extract_attributes
extract_attributes(tag) ==
    LET t == trim_tag(tag)
        sp == scan_until(t, 1, {" "})
    IN  IF sp > Len(t) THEN NoAttrs
        ELSE parse_attrs(SubSeq(t, sp + 1, Len(t)), 1, NoAttrs)

\* renderer.rs is_url_attribute
is_url_attribute(attr) ==
    attr \in { <<"s", "r", "c">>, <<"h", "r", "e", "f">>,
               <<"d", "a", "t", "a">>, <<"p", "o", "s", "t", "e", "r">>,
               <<"s", "r", "c", "s", "e", "t">> }

\* ------------------------------------------------------------ replace_tag
ContentKey == <<"c", "o", "n", "t", "e", "n", "t">>
HrefKey == <<"h", "r", "e", "f">>

\* format!("<{} ", tag_name), format!("<{}>", tag_name), format!("</{}>", ..)
open_prefix(tag_name) == <<"<">> \o tag_name \o <<" ">>
open_exact(tag_name) == <<"<">> \o tag_name \o <<">">>
close_tag(tag_name) == <<"<", "/">> \o tag_name \o <<">">>

\* renderer.rs replace_tag: the test that a buffered tag opens the component.
is_opening(tag, tag_name) ==
    starts_with(tag, open_prefix(tag_name)) \/ tag = open_exact(tag_name)

\* A depth loop that never counts a nested opening tag.
opens_nested_never(potential_tag, tag_name) == FALSE

\* renderer.rs replace_tag, depth loop: the test that increments depth.
opens_nested(potential_tag, tag_name) == is_opening(potential_tag, tag_name)

\* A test that takes every '>' to end the opening tag.
ends_tag_any(next_ch, in_quotes) == next_ch = ">"

\* renderer.rs replace_tag: if next_ch == '>' && !in_quotes
ends_tag(next_ch, in_quotes) == next_ch = ">" /\ ~in_quotes

\* renderer.rs replace_tag: the loop that buffers the opening tag, reading
\* from index j.  next is the index of the first character not consumed,
\* closed whether a '>' outside quotes ended the loop (tag_content is set).
RECURSIVE buffer_tag(_, _, _, _)
buffer_tag(html, j, in_quotes, quote_char) ==
    IF j > Len(html) THEN [next |-> j, closed |-> FALSE]
    ELSE
    LET next_ch == html[j]
        closes == next_ch \in Quotes /\ in_quotes /\ next_ch = quote_char
        opens == next_ch \in Quotes /\ ~in_quotes
        iq == IF closes THEN FALSE ELSE IF opens THEN TRUE ELSE in_quotes
        qc == IF opens THEN next_ch ELSE quote_char
    IN  IF ends_tag(next_ch, iq) THEN [next |-> j + 1, closed |-> TRUE]
        ELSE buffer_tag(html, j + 1, iq, qc)

\* renderer.rs replace_tag, depth loop: the inner loop that reads
\* potential_tag up to the next '>'; the index of its last character.
RECURSIVE potential_end(_, _)
potential_end(html, j) ==
    IF j > Len(html) THEN Len(html)
    ELSE IF html[j] = ">" THEN j
    ELSE potential_end(html, j + 1)

\* renderer.rs replace_tag: the depth loop, reading from index j.
RECURSIVE scan_inner(_, _, _, _, _)
scan_inner(html, j, depth, inner_content, tag_name) ==
    IF j > Len(html) THEN [inner_content |-> inner_content, next |-> j]
    ELSE IF html[j] = "<"
    THEN LET k == potential_end(html, j + 1)
             potential_tag == SubSeq(html, j, k)
             d == IF potential_tag = close_tag(tag_name) THEN depth - 1
                  ELSE IF opens_nested(potential_tag, tag_name) THEN depth + 1
                  ELSE depth
         IN IF d = 0
            THEN [inner_content |-> inner_content, next |-> k + 1]
            ELSE scan_inner(html, k + 1, d, inner_content \o potential_tag,
                            tag_name)
    ELSE scan_inner(html, j + 1, depth, Append(inner_content, html[j]),
                    tag_name)

\* renderer.rs replace_tag: the render context built from the attributes
\* and the inner content.
RECURSIVE insert_attrs(_, _, _, _)
insert_attrs(context, attrs, keys, base_path) ==
    IF keys = {} THEN context
    ELSE LET key == CHOOSE k \in keys : TRUE
         IN insert_attrs(
                insert(context, key,
                       IF is_url_attribute(key)
                       THEN resolve_path(attrs[key], base_path)
                       ELSE attrs[key]),
                attrs, keys \ {key}, base_path)

build_context(attrs, inner_content, base_path) ==
    LET c == insert_attrs(NoAttrs, attrs, DOMAIN attrs, base_path)
    IN  IF inner_content # <<>> THEN insert(c, ContentKey, inner_content)
        ELSE c

\* The component templates modelled.  "none": no template is registered
\* under the name; "echo" renders the href and the content between markers;
\* "strict" does the same and fails when the context has no content (an
\* undefined variable); "broken" always fails to render.
TemplateKinds == {"none", "echo", "strict", "broken"}

\* A template whose output is an element of its own tag name around the
\* content: <name>{{ content }}</name>.
SelfKind == "self"

\* tera.render(template_name, &context)
render(kind, tag_name, context) ==
    IF \/ kind \in {"none", "broken"}
       \/ kind = "strict" /\ ContentKey \notin DOMAIN context
    THEN [ok |-> FALSE, out |-> <<>>]
    ELSE IF kind = SelfKind
    THEN [ok |-> TRUE,
          out |-> open_exact(tag_name)
                  \o (IF ContentKey \in DOMAIN context
                      THEN context[ContentKey] ELSE <<>>)
                  \o close_tag(tag_name)]
    ELSE [ok |-> TRUE,
          out |-> <<"{">> \o tag_name
                  \o (IF HrefKey \in DOMAIN context
                      THEN <<"@">> \o context[HrefKey] ELSE <<>>)
                  \o <<"|">>
                  \o (IF ContentKey \in DOMAIN context
                      THEN context[ContentKey] ELSE <<>>)
                  \o <<"}">>]

\* renderer.rs replace_tag: the scan from index i with the result built so
\* far.  calls is a history of the elements matched: the opening tag
\* buffered, the attributes, the inner content, the first and last input
\* index consumed for the element and whether the template rendered.
RECURSIVE replace_tag_from(_, _, _, _, _, _, _)
replace_tag_from(html, i, result, calls, tag_name, kind, base_path) ==
    IF i > Len(html) THEN [result |-> result, calls |-> calls]
    ELSE IF html[i] # "<"
    THEN replace_tag_from(html, i + 1, Append(result, html[i]), calls,
                          tag_name, kind, base_path)
    ELSE
    LET b == buffer_tag(html, i + 1, FALSE, " ")
        buffered == SubSeq(html, i, b.next - 1)
        tag_content == IF b.closed THEN buffered ELSE <<>>
    IN  IF ~is_opening(tag_content, tag_name)
        THEN replace_tag_from(html, b.next, result \o buffered, calls,
                              tag_name, kind, base_path)
        ELSE
        LET attrs == extract_attributes(tag_content)
            in == IF ends_with(tag_content, <<"/", ">">>)
                  THEN [inner_content |-> <<>>, next |-> b.next]
                  ELSE scan_inner(html, b.next, 1, <<>>, tag_name)
            r == render(kind, tag_name,
                        build_context(attrs, in.inner_content, base_path))
            call == [tag |-> tag_content, attrs |-> attrs,
                     content |-> in.inner_content, start |-> i,
                     stop |-> in.next - 1, ok |-> r.ok, name |-> tag_name]
        IN  replace_tag_from(html, in.next,
                             IF r.ok THEN result \o r.out
                             ELSE result \o buffered,
                             Append(calls, call), tag_name, kind, base_path)

\* A replace_tag that scans what it produced once more.
replace_tag_rescan(html, tag_name, kind, base_path) ==
    LET first == replace_tag_from(html, 1, <<>>, <<>>, tag_name, kind,
                                  base_path)
        second == replace_tag_from(first.result, 1, <<>>, <<>>, tag_name,
                                   kind, base_path)
    IN [result |-> second.result, calls |-> first.calls \o second.calls]

\* renderer.rs replace_tag
replace_tag(html, tag_name, kind, base_path) ==
    replace_tag_from(html, 1, <<>>, <<>>, tag_name, kind, base_path)

\* ------------------------------------------------ post_process_components
\* The tag_patterns modelled, in the order of the source's list.
PreName == <<"p", "r", "e">>
AName == <<"a">>
PName == <<"p">>
tag_patterns == <<PreName, AName, PName>>
TagNames == {tag_patterns[i] : i \in 1..Len(tag_patterns)}

\* A loop that takes every tag name to have a template.
has_template_always(tera, tag_name) == TRUE

\* tera.get_template(&template_name) is Ok
has_template(tera, tag_name) == tera[tag_name] # "none"

\* renderer.rs post_process_components: the loop from the i-th tag name on.
RECURSIVE post_process_from(_, _, _, _, _)
post_process_from(result, calls, i, tera, base_path) ==
    IF i > Len(tag_patterns) THEN [result |-> result, calls |-> calls]
    ELSE IF ~has_template(tera, tag_patterns[i])
    THEN post_process_from(result, calls, i + 1, tera, base_path)
    ELSE LET r == replace_tag(result, tag_patterns[i], tera[tag_patterns[i]],
                              base_path)
         IN post_process_from(r.result, calls \o r.calls, i + 1, tera,
                              base_path)

\* renderer.rs post_process_components
post_process_components(html, tera, base_path) ==
    post_process_from(html, <<>>, 1, tera, base_path)

\* ------------------------------------------------ highlight_code_blocks
\* str::find and str::rfind: the index of the first and of the last
\* occurrence of pat in s, 0 when there is none.
Occurrences(s, pat) ==
    {i \in 1..(Len(s) - Len(pat) + 1) : SubSeq(s, i, i + Len(pat) - 1) = pat}
find(s, pat) ==
    IF Occurrences(s, pat) = {} THEN 0
    ELSE CHOOSE i \in Occurrences(s, pat) :
            \A k \in Occurrences(s, pat) : i <= k
rfind(s, pat) ==
    IF Occurrences(s, pat) = {} THEN 0
    ELSE CHOOSE i \in Occurrences(s, pat) :
            \A k \in Occurrences(s, pat) : k <= i

\* str::replace: every occurrence of pat, found from left to right without
\* overlap, becomes rep.
RECURSIVE replace(_, _, _)
replace(s, pat, rep) ==
    IF find(s, pat) = 0 THEN s
    ELSE SubSeq(s, 1, find(s, pat) - 1) \o rep
            \o replace(SubSeq(s, find(s, pat) + Len(pat), Len(s)), pat, rep)

EntLt == <<"&", "l", "t", ";">>
EntGt == <<"&", "g", "t", ";">>
EntAmp == <<"&", "a", "m", "p", ";">>
EntQuot == <<"&", "q", "u", "o", "t", ";">>
EntApos == <<"&", "#", "3", "9", ";">>

\* renderer.rs decode_html_entities: the five replacements in the order of
\* the source.
decode_html_entities(html) ==
    replace(replace(replace(replace(replace(html,
        EntLt, <<"<">>), EntGt, <<">">>), EntAmp, <<"&">>),
        EntQuot, <<"\"">>), EntApos, <<"'">>)

\* The HTML escaping of the five characters, as the markdown renderer and
\* the highlighter write text.
escape_char(c) ==
    CASE c = "&" -> EntAmp
      [] c = "<" -> EntLt
      [] c = ">" -> EntGt
      [] c = "\"" -> EntQuot
      [] c = "'" -> EntApos
      [] OTHER -> <<c>>
escape_html(t) == Concat([i \in 1..Len(t) |-> escape_char(t[i])])

PreTag == <<"<", "p", "r", "e", ">">>
PreTagSpace == <<"<", "p", "r", "e", " ">>
PreEnd == <<"<", "/", "p", "r", "e", ">">>
CodePrefix == <<"<", "c", "o", "d", "e">>
CodeEnd == <<"<", "/", "c", "o", "d", "e", ">">>
ClassLanguage ==
    <<"c", "l", "a", "s", "s", "=", "\"", "l", "a", "n", "g", "u", "a",
      "g", "e", "-">>
HighlightOpen ==
    <<"<", "p", "r", "e", " ", "c", "l", "a", "s", "s", "=", "\"", "s",
      "y", "n", "t", "a", "x", "-", "h", "i", "g", "h", "l", "i", "g", "h",
      "t", "\"", ">", "<", "c", "o", "d", "e", ">">>
HighlightClose == CodeEnd \o PreEnd
SpanOpen ==
    <<"<", "s", "p", "a", "n", " ", "c", "l", "a", "s", "s", "=", "\"",
      "s", "o", "u", "r", "c", "e", " ">>
SpanClose == <<"<", "/", "s", "p", "a", "n", ">">>

\* renderer.rs highlight_code: the block written for the code, or an error
\* of the line highlighter (ok is FALSE).  The generator's markup is a span
\* classed by the language around the escaped code.
highlight_code(code, lang, ok) ==
    [ok |-> ok,
     out |-> IF ok
             THEN HighlightOpen \o SpanOpen \o lang \o <<"\"", ">">>
                    \o escape_html(code) \o SpanClose \o HighlightClose
             ELSE <<>>]

\* renderer.rs process_pre_content: the language between
\* class="language- and the next '"', None (<<>> in a one-element or empty
\* sequence) when either is missing.
language_of(content) ==
    LET class_start == find(content, ClassLanguage)
        lang_start == class_start + Len(ClassLanguage)
        quote_end == find(SubSeq(content, lang_start, Len(content)),
                          <<"\"">>)
    IN  IF class_start = 0 \/ quote_end = 0 THEN <<>>
        ELSE <<SubSeq(content, lang_start, lang_start + quote_end - 2)>>

\* renderer.rs process_pre_content: "some" with the highlighted block,
\* "none" to keep the original, "panic" when the slice of the code starts
\* after its end.
process_pre_content(pre_content, ok) ==
    LET content == trim(pre_content)
        lang == language_of(content)
        gt == find(content, <<">">>)
        code_end == rfind(content, CodeEnd)
        code == SubSeq(content, gt + 1, code_end - 1)
        h == highlight_code(decode_html_entities(code), lang[1], ok)
    IN  IF ~starts_with(content, CodePrefix) THEN [kind |-> "none", out |-> <<>>]
        ELSE IF gt = 0 \/ code_end = 0 THEN [kind |-> "none", out |-> <<>>]
        ELSE IF gt > code_end THEN [kind |-> "panic", out |-> <<>>]
        ELSE IF lang # <<>> /\ h.ok THEN [kind |-> "some", out |-> h.out]
        ELSE [kind |-> "none", out |-> <<>>]

\* renderer.rs highlight_code_blocks: the characters from the '<' at i up
\* to the first '>' after it, whether quoted or not, or up to the end of
\* the input.
read_tag(html, i) ==
    LET ends == {k \in (i + 1)..Len(html) : html[k] = ">"}
        stop == IF ends = {} THEN Len(html)
                ELSE CHOOSE k \in ends : \A m \in ends : k <= m
    IN  [text |-> SubSeq(html, i, stop), next |-> stop + 1,
         closed |-> ends # {}]

\* The test of the opening tag's buffer that takes no tag for a <pre>.
is_pre_tag_never(tag_buf) == FALSE

\* renderer.rs highlight_code_blocks: the test of the opening tag's buffer.
is_pre_tag(tag_buf) ==
    starts_with(tag_buf, PreTag) \/ starts_with(tag_buf, PreTagSpace)

\* renderer.rs highlight_code_blocks: the loop that collects pre_content
\* from index j.  depth starts at 1 and the loop only ever lowers it, at the
\* first tag that is exactly </pre>; every other tag is content.
RECURSIVE scan_pre(_, _, _)
scan_pre(html, j, pre_content) ==
    IF j > Len(html)
    THEN [closed |-> FALSE, pre_content |-> pre_content, next |-> j]
    ELSE IF html[j] # "<"
    THEN scan_pre(html, j + 1, Append(pre_content, html[j]))
    ELSE IF read_tag(html, j).text = PreEnd
    THEN [closed |-> TRUE, pre_content |-> pre_content,
          next |-> read_tag(html, j).next]
    ELSE scan_pre(html, read_tag(html, j).next,
                  pre_content \o read_tag(html, j).text)

\* renderer.rs highlight_code_blocks: the scan from index i with the result
\* built so far.
RECURSIVE highlight_from(_, _, _, _)
highlight_from(html, i, result, ok) ==
    IF i > Len(html) THEN [result |-> result, panicked |-> FALSE]
    ELSE IF html[i] # "<"
    THEN highlight_from(html, i + 1, Append(result, html[i]), ok)
    ELSE
    LET t == read_tag(html, i)
    IN  IF ~(t.closed /\ is_pre_tag(t.text))
        THEN highlight_from(html, t.next, result \o t.text, ok)
        ELSE
        LET s == scan_pre(html, t.next, <<>>)
            p == process_pre_content(s.pre_content, ok)
        IN  IF ~s.closed
            THEN highlight_from(html, s.next, result \o t.text, ok)
            ELSE IF p.kind = "panic"
            THEN [result |-> <<>>, panicked |-> TRUE]
            ELSE IF p.kind = "some"
            THEN highlight_from(html, s.next, result \o p.out, ok)
            ELSE highlight_from(html, s.next,
                                result \o t.text \o s.pre_content \o PreEnd,
                                ok)

\* renderer.rs highlight_code_blocks
highlight_code_blocks(html, ok) == highlight_from(html, 1, <<>>, ok)

\* The two passes in the other order: components, then the highlighter.
render_markdown_components_first(html_output, tera, base_path, ok) ==
    LET r == post_process_components(html_output, tera, base_path)
        highlighted == highlight_code_blocks(r.result, ok)
    IN  [result |-> highlighted.result, calls |-> r.calls,
         panicked |-> highlighted.panicked]

\* renderer.rs render_markdown_with_components, from the HTML the markdown
\* renderer wrote: the two passes in the order of the source.
render_markdown_with_components(html_output, tera, base_path, ok) ==
    LET highlighted == highlight_code_blocks(html_output, ok)
        r == post_process_components(highlighted.result, tera, base_path)
    IN  IF highlighted.panicked
        THEN [result |-> <<>>, calls |-> <<>>, panicked |-> TRUE]
        ELSE [result |-> r.result, calls |-> r.calls, panicked |-> FALSE]

\* -------------------------------------------------------- hash_directory
\* The order of characters and of strings (byte order), and of paths:
\* PathBuf compares component by component.
CharRank == [c \in {"/", "a", "b", "t", "x"} |->
                CHOOSE i \in 1..5 : <<"/", "a", "b", "t", "x">>[i] = c]
str_less(s, t) ==
    \E k \in 1..(Len(t)) :
        /\ \A i \in 1..(k - 1) : i <= Len(s) /\ s[i] = t[i]
        /\ k > Len(s) \/ (k - 1 < Len(s) /\ CharRank[s[k]] < CharRank[t[k]])
path_less(p, q) ==
    LET ps == split(p, "/")
        qs == split(q, "/")
    IN  \E k \in 1..Len(qs) :
            /\ \A i \in 1..(k - 1) : i <= Len(ps) /\ ps[i] = qs[i]
            /\ k > Len(ps) \/ (k - 1 < Len(ps) /\ str_less(ps[k], qs[k]))

\* cache.rs hash_directory: files.sort_by_key(|e| e.path().to_path_buf())
sort_by_key(entries) ==
    LET set == {entries[i] : i \in 1..Len(entries)}
    IN  [i \in 1..Len(entries) |->
            CHOOSE e \in set :
                Cardinality({f \in set : path_less(f.path, e.path)}) = i - 1]

\* cache.rs hash_directory: the bytes given to the hasher, path then
\* content of each file in turn with nothing between them.
hasher_update(entries) ==
    Concat([i \in 1..Len(entries) |-> entries[i].path \o entries[i].content])

\* blake3: the digest stands for the bytes hashed; two digests are equal
\* exactly when the bytes are (no collisions).
finalize(bytes) == <<"#">> \o bytes

\* cache.rs hash_directory, from the files in the order WalkDir lists them.
hash_directory_files(entries) == finalize(hasher_update(sort_by_key(entries)))

\* --------------------------------------------------- Renderer in isolation
\* Every variable of the build, which a call of a Renderer function leaves
\* as it is.
storeVars == <<files, theme, diskCache, diskMeta, now, cache, lastWrite,
               updates, run, edits, mainPc, useCache, templateHash, metadata,
               toSend, queue, senderOpen, workLock, cacheLock, wpc, wpath,
               wres, progress, chan, mainTx, results, errors, outcome, saves,
               recvCount, procCount, faulty, prev, postPath, written>>

Called == ret # Nil

\* main.rs: base_path is the category of the post.
BasePath == <<"p">>

\* Markup the transformer is given: an anchor without and with an
\* attribute, its closing tag, another closing tag and text.
OpenA == <<"<", "a", ">">>
OpenAHref == <<"<", "a", " ", "h", "r", "e", "f", "=", "\"", "x", "\"", ">">>
CloseA == <<"<", "/", "a", ">">>
CloseDiv == <<"<", "/", "d", "i", "v", ">">>
Text == <<"Z">>
NestTokens == {OpenA, OpenAHref, CloseA, CloseDiv, Text}

\* An anchor's opening tag under way, followed by single characters.
OpenAPrefix == <<"<", "a", " ">>
TagChars == { <<"\"">>, <<"'">>, <<">">>, <<"<">>, <<"x">> }

ReplaceInputs ==
    SeqsUpTo(NestTokens, MaxNest)
        \cup {<<OpenAPrefix>> \o cs : cs \in SeqsUpTo(TagChars, MaxTagChars)}

InitReplaceTag ==
    /\ InitStore
    /\ arg \in {[tokens |-> ts, html |-> Concat(ts), kind |-> k] :
                    ts \in ReplaceInputs, k \in TemplateKinds \ {"none"}}
    /\ ret = Nil

\* One call Renderer::replace_tag(html, "a", tera, "components/a.html",
\* base_path).
CallReplaceTag ==
    /\ arg # Nil /\ ret = Nil
    /\ ret' = replace_tag(arg.html, AName, arg.kind, BasePath)
    /\ UNCHANGED <<storeVars, arg>>

SpecReplaceTag == InitReplaceTag /\ [][CallReplaceTag]_vars

\* Markup with elements of the three tag names.
HtmlTokens == {OpenA, CloseA, <<"<", "p", ">">>, <<"<", "/", "p", ">">>,
               <<"<", "p", "r", "e", ">">>, <<"<", "/", "p", "r", "e", ">">>,
               Text}

InitComponents ==
    /\ InitStore
    /\ arg \in {[tokens |-> ts, html |-> Concat(ts), tera |-> t] :
                    ts \in SeqsUpTo(HtmlTokens, MaxHtmlTokens),
                    t \in [TagNames -> {"none", "echo", "broken"}]}
    /\ ret = Nil

\* One call Renderer::post_process_components(html, tera, base_path).
CallComponents ==
    /\ arg # Nil /\ ret = Nil
    /\ ret' = post_process_components(arg.html, arg.tera, BasePath)
    /\ UNCHANGED <<storeVars, arg>>

SpecComponents == InitComponents /\ [][CallComponents]_vars

\* Attributes as written in an opening tag: a bare key, a double-quoted, a
\* single-quoted or an unquoted value, and a value with spaces around '='.
AttrKeys == { <<"k">>, <<"h", "r", "e", "f">> }
Attrs ==
    [key : AttrKeys, form : {"bare"}, value : {<<>>}]
    \cup [key : AttrKeys, form : {"dq"},
          value : {<<>>, <<"x">>, <<"x", " ", "=">>, <<"'", "/">>}]
    \cup [key : AttrKeys, form : {"sq"}, value : {<<"x">>, <<"\"", ">">>}]
    \cup [key : AttrKeys, form : {"raw"}, value : {<<"x">>, <<"x", "/", "y">>}]
    \cup [key : AttrKeys, form : {"spaced"}, value : {<<"x">>}]

AttrText(a) ==
    CASE a.form = "bare" -> a.key
      [] a.form = "dq" -> a.key \o <<"=", "\"">> \o a.value \o <<"\"">>
      [] a.form = "sq" -> a.key \o <<"=", "'">> \o a.value \o <<"'">>
      [] a.form = "raw" -> a.key \o <<"=">> \o a.value
      [] a.form = "spaced" ->
            a.key \o <<" ", "=", " ", "\"">> \o a.value \o <<"\"">>

\* The end of an opening tag, self-closing or not.
TagEnds == { <<">">>, <<"/", ">">>, <<" ", "/", ">">> }

TagText(pairs, end) ==
    <<"<", "a">>
        \o Concat([i \in 1..Len(pairs) |-> <<" ">> \o AttrText(pairs[i])])
        \o end

InitAttributes ==
    /\ InitStore
    /\ arg \in {[pairs |-> ps, end |-> e, tag |-> TagText(ps, e)] :
                    ps \in SeqsUpTo(Attrs, MaxAttrs), e \in TagEnds}
    /\ ret = Nil

\* One call Renderer::extract_attributes(tag).
CallAttributes ==
    /\ arg # Nil /\ ret = Nil
    /\ ret' = [attrs |-> extract_attributes(arg.tag)]
    /\ UNCHANGED <<storeVars, arg>>

SpecAttributes == InitAttributes /\ [][CallAttributes]_vars

\* Attribute values and base paths handed to resolve_path.
ValueTokens == {HttpScheme, HttpsScheme, <<"#">>, DataScheme, MailtoScheme,
                <<"/">>, <<".">>, DotDotSlash, <<"x">>, <<" ">>}
BaseChars == { <<"/">>, <<"p">> }

InitResolvePath ==
    /\ InitStore
    /\ arg \in {[path |-> Concat(ts), base_path |-> Concat(bs)] :
                    ts \in SeqsUpTo(ValueTokens, MaxValueTokens),
                    bs \in SeqsUpTo(BaseChars, MaxBaseChars)}
    /\ ret = Nil

\* One call Renderer::resolve_path(path, base_path).
CallResolvePath ==
    /\ arg # Nil /\ ret = Nil
    /\ ret' = [value |-> resolve_path(arg.path, arg.base_path)]
    /\ UNCHANGED <<storeVars, arg>>

SpecResolvePath == InitResolvePath /\ [][CallResolvePath]_vars

\* Markup the highlighter is given: the opening tag of a <pre> without and
\* with a quoted '>', its closing tag, a <code> with and without a language
\* class, its closing tag and text.
PreQuoted ==
    <<"<", "p", "r", "e", " ", "k", "=", "\"", ">", "\"", ">">>
CodeLang ==
    <<"<", "c", "o", "d", "e", " ", "c", "l", "a", "s", "s", "=", "\"",
      "l", "a", "n", "g", "u", "a", "g", "e", "-", "x", "\"", ">">>
CodeOpen == <<"<", "c", "o", "d", "e", ">">>
PreTokens == {PreTag, PreQuoted, PreEnd, CodeLang, CodeOpen, CodeEnd, Text}
PreOpens == {PreTag, PreQuoted}

\* Token sequences, and the same closed into one <pre> block.
HighlightInputs ==
    SeqsUpTo(PreTokens, MaxPreTokens)
        \cup {<<p>> \o ts \o <<PreEnd>> :
                p \in PreOpens, ts \in SeqsUpTo(PreTokens, MaxPreTokens)}

InitHighlight ==
    /\ InitStore
    /\ arg \in {[tokens |-> ts, html |-> Concat(ts), ok |-> ok] :
                    ts \in HighlightInputs, ok \in BOOLEAN}
    /\ ret = Nil

\* One call Renderer::highlight_code_blocks(html).
CallHighlight ==
    /\ arg # Nil /\ ret = Nil
    /\ ret' = highlight_code_blocks(arg.html, arg.ok)
    /\ UNCHANGED <<storeVars, arg>>

SpecHighlight == InitHighlight /\ [][CallHighlight]_vars

\* Text the markdown renderer escapes: the five characters and the tails
\* of their entities.
TextTokens == { <<"&">>, <<"<">>, <<">">>, <<"\"">>, <<"'">>,
                <<"a", "m", "p", ";">>, <<"l", "t", ";">>,
                <<"q", "u", "o", "t", ";">>, <<"#", "3", "9", ";">>,
                <<"x">> }

InitDecode ==
    /\ InitStore
    /\ arg \in {[text |-> Concat(ts), html |-> escape_html(Concat(ts))] :
                    ts \in SeqsUpTo(TextTokens, MaxTextTokens)}
    /\ ret = Nil

\* One call Renderer::decode_html_entities(html).
CallDecode ==
    /\ arg # Nil /\ ret = Nil
    /\ ret' = [value |-> decode_html_entities(arg.html)]
    /\ UNCHANGED <<storeVars, arg>>

SpecDecode == InitDecode /\ [][CallDecode]_vars

\* Component templates for the two passes: <pre> and <a> registered or not.
RenderTeras == {t \in [TagNames -> {"none", "echo"}] : t[PName] = "none"}

InitRender ==
    /\ InitStore
    /\ arg \in {[tokens |-> ts, html |-> Concat(ts), tera |-> t, ok |-> ok] :
                    ts \in HighlightInputs, t \in RenderTeras,
                    ok \in BOOLEAN}
    /\ ret = Nil

\* One call Renderer::render_markdown_with_components, after the markdown
\* renderer.
CallRender ==
    /\ arg # Nil /\ ret = Nil
    /\ ret' = render_markdown_with_components(arg.html, arg.tera, BasePath,
                                              arg.ok)
    /\ UNCHANGED <<storeVars, arg>>

SpecRender == InitRender /\ [][CallRender]_vars

\* Files of a theme directory t: paths and contents.
ThemePaths == {<<"t", "/", "a">>,
               <<"t", "/", "a", "t", "/", "b">>,
               <<"t", "/", "a", "t", "/", "b", "t", "/", "a">>,
               <<"t", "/", "b", "t", "/", "a">>}
ThemeContents == {<<>>, <<"x">>, <<"t">>}
ThemeFiles == [path : ThemePaths, content : ThemeContents]

\* The directory listings: files of different paths in any order.
Listings ==
    {fs \in SeqsUpTo(ThemeFiles, MaxThemeFiles) :
        \A i, j \in 1..Len(fs) : i # j => fs[i].path # fs[j].path}

InitHashDirectory ==
    /\ InitStore
    /\ arg \in {[files |-> fs] : fs \in Listings}
    /\ ret = Nil

\* One call hash_directory_files(dir).
CallHashDirectory ==
    /\ arg # Nil /\ ret = Nil
    /\ ret' = [value |-> hash_directory_files(arg.files)]
    /\ UNCHANGED <<storeVars, arg>>

SpecHashDirectory == InitHashDirectory /\ [][CallHashDirectory]_vars

\* ================================================================ claims
\* The result channel is closed and its last result collected.
Drained == mainPc \in {"join", "aggregate", "bail", "save_cache", "save_meta",
                       "exit"}
NoPanic == \A w \in Workers : wpc[w] # "panicked"
HasError(rs) == \E i \in 1..Len(rs) : rs[i].kind = "Error"
ExactlyOneResult(p) == Cardinality(ResultsFor(results, p)) = 1
HashValues == FileHashes \cup {<<"blake3", 0, FALSE>>}

\* C1: needs_rebuild(path, c, d) is true when path has no entry and is
\* otherwise true exactly when the file_hash last written for path differs
\* from c or the template_hash last written differs from d; an update_entry
\* on one path leaves the answer for every other path as it was.
C1_LastWriteWins ==
    /\ [](\A p \in Paths, c \in HashValues, d \in TemplateHashes :
            needs_rebuild(cache, p, c, d) =
                (\/ lastWrite[p] = Nil
                 \/ lastWrite[p].file_hash # c
                 \/ lastWrite[p].template_hash # d))
    /\ [][\A p \in Paths :
            lastWrite'[p] = lastWrite[p] =>
                \A c \in HashValues, d \in TemplateHashes :
                    needs_rebuild(cache', p, c, d) = needs_rebuild(cache, p, c, d)
         ]_vars

\* A path written twice (the second write is the one that counts) while
\* another path has no entry.
C1_Witness ==
    /\ updates = 2
    /\ Cardinality(DOMAIN cache.entries) = 1
    /\ \E p \in DOMAIN cache.entries :
        /\ cache.entries[p].built_at = 1
        /\ ~needs_rebuild(cache, p, lastWrite[p].file_hash,
                          lastWrite[p].template_hash)
        /\ needs_rebuild(cache, p, <<"blake3", 0, FALSE>>,
                         lastWrite[p].template_hash)

\* C2: once the queue is closed and the collector channel has ended, the
\* main thread holds exactly one result for each of the K enqueued paths
\* (stated for builds in which no worker thread panicked).
C2_ExactlyKResults ==
    (Drained /\ NoPanic) =>
        /\ Len(results) = NumPaths
        /\ \A p \in Paths : ExactlyOneResult(p)

\* C3: no two workers hold the same path, and when the sweep has ended each
\* enqueued path was received from the queue exactly once and passed to
\* process_post_parallel exactly once (stated for builds without a panic).
C3_ExactlyOnce ==
    /\ \A w1, w2 \in Workers :
        (w1 # w2 /\ wpath[w1] # 0) => wpath[w1] # wpath[w2]
    /\ (Drained /\ NoPanic) =>
        \A p \in Paths : recvCount[p] = 1 /\ procCount[p] = 1

\* The previous build was incremental, ended Ok with a result for every
\* file, and neither the content nor the theme changed since.
UnchangedRerun ==
    /\ prev # Nil
    /\ useCache
    /\ files = prev.files
    /\ theme = prev.theme

\* C4 as stated: the second of two incremental builds over an unchanged
\* content set yields Skipped(Cached) for each of the N files.
C4_AllCached ==
    (UnchangedRerun /\ Drained /\ NoPanic /\ ~HasError(results)
        /\ \A p \in Paths : ExactlyOneResult(p)) =>
        \A i \in 1..Len(results) :
            results[i].kind = "Skipped" /\ results[i].reason = "Cached"

\* C4 as amended: in the second of two incremental builds over an unchanged
\* content set, the first having ended Ok, no result is a Success; a file
\* that is not a draft yields Skipped(Cached) and a draft yields
\* Skipped(Draft), unless hashing or parsing it fails.
C4_NoRebuild ==
    UnchangedRerun =>
        \A i \in 1..Len(Produced) :
            LET r == Produced[i] IN
            /\ r.kind # "Success"
            /\ r.kind = "Skipped" =>
                r.reason = (IF files[r.path].draft THEN "Draft" ELSE "Cached")
            /\ r.kind = "Error" => r.path \in faulty

\* The second build has ended Ok with a Cached and a Draft result.
C4_Witness ==
    /\ UnchangedRerun
    /\ mainPc = "exit" /\ outcome = "ok"
    /\ \A p \in Paths : ExactlyOneResult(p)
    /\ \E i, j \in 1..Len(results) :
        /\ results[i].kind = "Skipped" /\ results[i].reason = "Cached"
        /\ results[j].kind = "Skipped" /\ results[j].reason = "Draft"

\* The previous build was incremental and ended Ok with a result for every
\* file; this one is incremental and sees the same theme.
FollowUpRun ==
    /\ prev # Nil
    /\ useCache
    /\ theme = prev.theme

NonDrafts == {p \in Paths : ~files[p].draft}

Unfailed(p) ==
    IF useCache /\ ~needs_rebuild(cache, p, hash_file(files[p]), templateHash)
    THEN Skipped(p, "Cached")
    ELSE IF files[p].draft THEN Skipped(p, "Draft")
    ELSE Success(p, files[p], hash_file(files[p]), templateHash)

\* C6: when a step fails for some path and the sweep has ended (no thread
\* having panicked), every enqueued path has exactly one result; a result is
\* an Error only for a path for which a step failed, and every path for
\* which no step failed has the result it yields without any failure.
C6_ErrorIsLocal ==
    (mainPc \in {"join", "aggregate"} /\ NoPanic /\ faulty # {}) =>
        \A p \in Paths :
            /\ ExactlyOneResult(p)
            /\ \A i \in ResultsFor(results, p) :
                /\ results[i].kind = "Error" => p \in faulty
                /\ p \notin faulty => results[i] = Unfailed(p)

\* One path failed and another one was built.
C6_Witness ==
    /\ mainPc = "aggregate" /\ NoPanic
    /\ \E i, j \in 1..Len(results) :
        /\ results[i].kind = "Error"
        /\ results[j].kind = "Success"
        /\ results[j].path \notin faulty

\* C7: when the build fails because a path failed, every path had been
\* attempted and the cache entries and metadata of the paths that were built
\* are persisted.
C7_PartialSuccessPersisted ==
    (mainPc = "exit" /\ outcome = "posts_failed") =>
        /\ \A p \in Paths : ExactlyOneResult(p)
        /\ \A i \in 1..Len(results) :
            results[i].kind = "Success" =>
                /\ useCache =>
                    /\ diskCache # Nil
                    /\ results[i].path \in DOMAIN diskCache.entries
                    /\ diskCache.entries[results[i].path].file_hash =
                            results[i].file_hash
                /\ diskMeta # Nil
                /\ \E k \in 1..Len(diskMeta.posts) :
                        /\ diskMeta.posts[k].slug = results[i].slug
                        /\ diskMeta.posts[k].frontmatter = results[i].frontmatter

Ended == mainPc = "exit"

\* C8 as stated: the post sweep fails if and only if an Error result was
\* produced.
C8_FailsIffError ==
    Ended => ((outcome # "ok") <=> HasError(results))

\* C8 as amended: the post sweep fails whenever an Error result was
\* produced; when none was produced it fails only because a worker thread
\* panicked or because saving the cache or the metadata failed.
C8_FailureCauses ==
    Ended =>
        /\ HasError(results) => outcome # "ok"
        /\ outcome \in {"ok", "posts_failed", "worker_panicked", "save_failed"}
        /\ outcome = "posts_failed" <=> (HasError(results) /\ NoPanic)
        /\ outcome = "worker_panicked" <=> ~NoPanic

\* The sweep ended in failure because a path failed.
C8_Witness ==
    /\ Ended /\ outcome = "posts_failed"
    /\ HasError(results)
    /\ \E i \in 1..Len(results) : results[i].kind = "Success"

\* C9: once a worker thread has panicked the build never ends Ok: it keeps
\* running until it ends with the fatal error of pool.join, whatever the
\* thread held when it panicked.
C9_PanicIsFatal ==
    ~NoPanic =>
        /\ outcome \in {"running", "worker_panicked"}
        /\ Ended => outcome = "worker_panicked"
        /\ mainPc \notin {"aggregate", "bail", "save_cache", "save_meta"}

\* The build ended after a worker panicked holding a guard, which poisoned
\* the mutex.
C9_Witness ==
    /\ Ended /\ outcome = "worker_panicked"
    /\ workLock.poisoned \/ cacheLock.poisoned
    /\ results # <<>>

\* C10: the cache document is written at most once per build, and only when
\* every enqueued path has produced its result; no other step changes it.
C10_SaveAfterAllResults ==
    [][(diskCache' # diskCache \/ saves' > saves) =>
            /\ saves = 0 /\ saves' = 1
            /\ mainPc = "save_cache"
            /\ \A p \in Paths : ExactlyOneResult(p)
      ]_vars

\* This build is incremental and the worker threads see the cache as it was
\* loaded (the aggregation has not run yet).
CacheAsLoaded ==
    /\ Running /\ useCache
    /\ mainPc \in {"send", "spawn", "collect", "join", "aggregate"}

IsCached(r) == r.kind = "Skipped" /\ r.reason = "Cached"

\* C11: in an incremental build, for every path whose cache entry carries a
\* template_hash other than the template hash computed for the build (or
\* that has no entry), needs_rebuild is true whatever the file hash is and
\* the path never yields Skipped(Cached); so when the theme changed no path
\* at all is Cached.
C11_ThemeChangeInvalidates ==
    CacheAsLoaded =>
        \A p \in Paths :
            (p \in DOMAIN cache.entries =>
                cache.entries[p].template_hash # templateHash) =>
                /\ \A h \in HashValues :
                        needs_rebuild(cache, p, h, templateHash)
                /\ \A i \in 1..Len(Produced) :
                        Produced[i].path = p => ~IsCached(Produced[i])
                /\ \A w \in Workers :
                        (wres[w] # NoResult /\ wres[w].path = p) =>
                            ~IsCached(wres[w])

\* After an incremental build that ended Ok the theme changed and the
\* files did not: a file whose entry has the current file hash was rebuilt.
C11_Witness ==
    /\ CacheAsLoaded /\ mainPc = "aggregate"
    /\ prev # Nil /\ theme # prev.theme /\ files = prev.files
    /\ \E i \in 1..Len(results) :
        /\ results[i].kind = "Success"
        /\ results[i].path \in DOMAIN cache.entries
        /\ cache.entries[results[i].path].file_hash = results[i].file_hash
        /\ cache.entries[results[i].path].template_hash # templateHash

\* Every entry of the cache document c was written for non-draft content.
NoDraftEntry(c) ==
    \A p \in DOMAIN c.entries :
        \E content \in Contents :
            ~content.draft /\ c.entries[p].file_hash = hash_file(content)

\* C12: no cache entry, in memory or persisted, is ever written for the
\* content of a draft; in an incremental build a draft file goes through
\* the pipeline again and yields Skipped(Draft) (an Error when hashing or
\* parsing it fails), never Skipped(Cached) and never Success, changed or
\* not.
C12_DraftNeverCached ==
    /\ NoDraftEntry(cache)
    /\ diskCache # Nil => NoDraftEntry(diskCache)
    /\ (Running /\ useCache) =>
        /\ \A i \in 1..Len(Produced) :
            LET r == Produced[i] IN
            files[r.path].draft =>
                /\ procCount[r.path] >= 1
                /\ IF r.kind = "Error" THEN r.path \in faulty
                   ELSE r.kind = "Skipped" /\ r.reason = "Draft"
        /\ \A w \in Workers :
            (wres[w] # NoResult /\ files[wres[w].path].draft) =>
                ~IsCached(wres[w]) /\ wres[w].kind # "Success"

\* A draft that did not change since the previous incremental build is
\* Skipped(Draft) again and has no cache entry.
C12_Witness ==
    /\ FollowUpRun
    /\ mainPc = "exit" /\ outcome = "ok"
    /\ \E i \in 1..Len(results) :
        LET p == results[i].path IN
        /\ files[p].draft /\ files[p] = prev.files[p]
        /\ results[i].kind = "Skipped" /\ results[i].reason = "Draft"
        /\ p \notin DOMAIN diskCache.entries

\* A build --post is under way or has just ended.
SinglePost == postPath # 0

\* C13: build --post <path> runs on the calling thread with no work queue,
\* no worker thread and no result channel, never loads the build cache and
\* never changes the persisted cache; it writes the output of that path and
\* of no other, and does so whenever no step fails, whether or not the
\* persisted cache holds a current entry for the path.
C13_SinglePostBypassesCache ==
    /\ [](SinglePost =>
            /\ \A w \in Workers : wpc[w] = "unspawned"
            /\ toSend = <<>> /\ queue = <<>> /\ chan = <<>>
            /\ results = <<>>
            /\ ~useCache /\ cache = BuildCache_new
            /\ written \subseteq {get_post_path(postPath)}
            /\ (mainPc = "post_exit" /\ outcome = "ok") =>
                    written = {get_post_path(postPath)}
            /\ (mainPc = "post_exit" /\ outcome # "ok") => written = {})
    /\ [][(SinglePost \/ postPath' # 0) =>
                diskCache' = diskCache /\ cache' = cache]_vars

\* A post whose persisted cache entry is current was built by --post.
C13_Witness ==
    /\ SinglePost
    /\ mainPc = "post_exit" /\ outcome = "ok"
    /\ written = {get_post_path(postPath)}
    /\ diskCache # Nil
    /\ ~needs_rebuild(diskCache, postPath, hash_file(files[postPath]),
                      hash_directory(theme))

\* The tag name occurs in html as an opening tag "<name>" or "<name ".
Occurs(html, tag_name) ==
    \E i \in 1..Len(html) :
        LET rest == SubSeq(html, i, Len(html)) IN
        \/ starts_with(rest, open_prefix(tag_name))
        \/ starts_with(rest, open_exact(tag_name))

Registered == {n \in TagNames : arg.tera[n] # "none"}

\* C14: when no component template is registered the output of
\* post_process_components is identical to its input; with templates
\* registered for some names, no element of a name without a template is
\* ever matched or rendered, and an input in which no registered name opens
\* a tag is returned identical.
C14_UnregisteredPassThrough ==
    Called =>
        /\ Registered = {} => (ret.result = arg.html /\ ret.calls = <<>>)
        /\ \A k \in 1..Len(ret.calls) : ret.calls[k].name \in Registered
        /\ (\A n \in Registered : ~Occurs(arg.html, n)) =>
                ret.result = arg.html

\* An anchor was replaced while the <p> around it, which has no template,
\* stayed as it was.
C14_Witness ==
    /\ Called
    /\ arg.tera[AName] = "echo" /\ arg.tera[PName] = "none"
    /\ arg.tokens = << <<"<", "p", ">">>, OpenA, CloseA >>
    /\ ret.result = <<"<", "p", ">", "{", "a", "|", "}">>
    /\ Len(ret.calls) = 1

\* The input is a sequence of the nesting tokens.
NestInput == \A k \in 1..Len(arg.tokens) : arg.tokens[k] \in NestTokens

IsOpenToken(t) == t \in {OpenA, OpenAHref}

\* Opening minus closing anchor tags among the tokens i..j.
Balance(ts, i, j) ==
    Cardinality({k \in i..j : IsOpenToken(ts[k])})
        - Cardinality({k \in i..j : ts[k] = CloseA})

\* The first opening anchor tag and the closing tags that balance it.
FirstOpen(ts) ==
    {i \in 1..Len(ts) :
        IsOpenToken(ts[i]) /\ \A k \in 1..(i - 1) : ~IsOpenToken(ts[k])}
Closers(ts, i) == {j \in (i + 1)..Len(ts) : Balance(ts, i, j) = 0}
TrueCloser(ts, i) ==
    CHOOSE j \in Closers(ts, i) : \A m \in Closers(ts, i) : j <= m

\* Number of characters of the first k tokens.
Offset(ts, k) == Len(Concat(SubSeq(ts, 1, k)))

\* C15: the first anchor of the input whose content is correctly nested
\* (anchors inside written "<a>" or "<a ...>" and closed by "</a>") is
\* paired with its own, outermost closing tag: the element consumed runs
\* from its opening tag to that closing tag, the content handed to the
\* template is the raw markup between them, and what follows the closing
\* tag follows the replacement.
C15_NestedSameTag ==
    (Called /\ NestInput) =>
        \A i \in FirstOpen(arg.tokens) :
            Closers(arg.tokens, i) # {} =>
                LET ts == arg.tokens
                    m == TrueCloser(ts, i)
                    content == Concat(SubSeq(ts, i + 1, m - 1))
                    call == ret.calls[1]
                    after == Concat(SubSeq(ts, m + 1, Len(ts)))
                IN  /\ ret.calls # <<>>
                    /\ call.tag = ts[i]
                    /\ call.start = Offset(ts, i - 1) + 1
                    /\ call.stop = Offset(ts, m)
                    /\ call.content = content
                    /\ call.ok =>
                        ret.result =
                            Concat(SubSeq(ts, 1, i - 1))
                            \o render(arg.kind, AName,
                                      build_context(extract_attributes(ts[i]),
                                                    content, BasePath)).out
                            \o replace_tag(after, AName, arg.kind,
                                           BasePath).result

\* <a href="x"><a href="x">Z</a></a></div>: the outer anchor got the inner
\* anchor as its content and </div> follows the replacement.
C15_Witness ==
    /\ Called /\ arg.kind = "echo"
    /\ arg.tokens = <<OpenAHref, OpenAHref, Text, CloseA, CloseA, CloseDiv>>
    /\ Len(ret.calls) = 1
    /\ ret.calls[1].content = OpenAHref \o Text \o CloseA
    /\ ret.result =
        <<"{", "a", "@", "/", "p", "/", "x", "|">> \o OpenAHref \o Text
            \o CloseA \o <<"}">> \o CloseDiv

\* The input is "<a " followed by single characters.
TagInput == arg.tokens # <<>> /\ arg.tokens[1] = OpenAPrefix

\* The quote that is open after the first i characters of w ("none" when
\* outside a quoted value): a quote opens a value, the same quote closes it.
RECURSIVE QuoteAt(_, _)
QuoteAt(w, i) ==
    IF i = 0 THEN "none"
    ELSE LET q == QuoteAt(w, i - 1) IN
         IF q = "none" THEN (IF w[i] \in Quotes THEN w[i] ELSE "none")
         ELSE IF w[i] = q THEN "none" ELSE q

\* The positions of html holding a '>' outside every quoted value.
UnquotedEnds(html) ==
    {i \in 1..Len(html) : html[i] = ">" /\ QuoteAt(html, i - 1) = "none"}

\* C16: the opening tag buffered for "<a ..." ends at the first '>' outside
\* a quoted value, whatever '>' , '<' or quote of the other kind the quoted
\* values hold; with no such '>' nothing is matched and the input is
\* returned as it is.
C16_QuoteAwareOpeningTag ==
    (Called /\ TagInput) =>
        IF UnquotedEnds(arg.html) = {}
        THEN ret.calls = <<>> /\ ret.result = arg.html
        ELSE LET e == CHOOSE i \in UnquotedEnds(arg.html) :
                        \A k \in UnquotedEnds(arg.html) : i <= k
             IN /\ ret.calls # <<>>
                /\ ret.calls[1].start = 1
                /\ ret.calls[1].tag = SubSeq(arg.html, 1, e)

\* <a "'>"> : the '>' and the single quote inside the double-quoted value
\* did not end the tag.
C16_Witness ==
    /\ Called /\ TagInput
    /\ arg.html = OpenAPrefix \o <<"\"", "'", ">", "\"", ">">>
    /\ ret.calls # <<>>
    /\ ret.calls[1].tag = arg.html

\* C17: when the template fails to render for every matched element, the
\* output of replace_tag equals its input.
C17_FailedRenderKeepsMarkup ==
    (Called /\ \A k \in 1..Len(ret.calls) : ~ret.calls[k].ok) =>
        ret.result = arg.html

\* The value the last attribute written with the key gives it.
LastValue(pairs, key) ==
    LET idx == {i \in 1..Len(pairs) : pairs[i].key = key}
        last == CHOOSE i \in idx : \A k \in idx : k <= i
    IN  IF pairs[last].form = "bare" THEN TrueMarker ELSE pairs[last].value

\* C18: the map extract_attributes returns has exactly the keys written in
\* the opening tag; a key written with a value (double-quoted, single-quoted
\* or unquoted, with or without spaces around '=') maps to that value
\* without its quotes, a bare key maps to "true" (the last occurrence of a
\* repeated key counts), and the '/' of a self-closing tag is in no key and
\* no value.
C18_AttributesExtracted ==
    Called =>
        /\ DOMAIN ret.attrs = {arg.pairs[i].key : i \in 1..Len(arg.pairs)}
        /\ \A key \in DOMAIN ret.attrs :
                ret.attrs[key] = LastValue(arg.pairs, key)

\* <a k href=x/> : a bare key and an unquoted value in a self-closing tag.
C18_Witness ==
    /\ Called
    /\ arg.tag = <<"<", "a", " ", "k", " ", "h", "r", "e", "f", "=", "x",
                   "/", ">">>
    /\ ret.attrs[<<"k">>] = TrueMarker
    /\ ret.attrs[HrefKey] = <<"x">>

\* The value is an absolute URL, a fragment, a data: or mailto: URI, or
\* starts with '/'.
IsAbsolute(v) ==
    \/ starts_with(v, HttpScheme) \/ starts_with(v, HttpsScheme)
    \/ starts_with(v, <<"/", "/">>) \/ starts_with(v, <<"#">>)
    \/ starts_with(v, DataScheme) \/ starts_with(v, MailtoScheme)
    \/ starts_with(v, Slash)

\* s without the characters ch at its two ends.
Stripped(s, ch) ==
    LET keep == {i \in 1..Len(s) : s[i] # ch} IN
    IF keep = {} THEN <<>>
    ELSE SubSeq(s, CHOOSE i \in keep : \A k \in keep : i <= k,
                   CHOOSE i \in keep : \A k \in keep : k <= i)

\* C19 as stated: resolve_path returns an absolute value unchanged, for
\* every base_path.
C19_AbsoluteUnchanged ==
    (Called /\ IsAbsolute(arg.path)) => ret.value = arg.path

\* C19 as amended: for a value that is absolute once the whitespace around
\* it is removed, resolve_path returns the value without that whitespace,
\* for every base_path: unchanged when it has none.
C19_AbsoluteTrimmed ==
    (Called /\ IsAbsolute(Stripped(arg.path, " "))) =>
        /\ ret.value = Stripped(arg.path, " ")
        /\ (Stripped(arg.path, " ") = arg.path) => ret.value = arg.path

\* " https://x" came back as "https://x".
C19_Witness ==
    /\ Called
    /\ arg.path = <<" ">> \o HttpsScheme \o <<"x">>
    /\ arg.base_path = <<"p", "/", "p">>
    /\ ret.value = HttpsScheme \o <<"x">>

\* The value matches none of the rules for absolute and "../" values.
NoOtherRule(v) ==
    ~IsAbsolute(v) /\ ~starts_with(v, DotSlash) /\ ~starts_with(v, DotDotSlash)

OneLeadingSlash(s) ==
    /\ s # <<>> /\ s[1] = "/"
    /\ Len(s) >= 2 => s[2] # "/"

\* C20 as stated: './rest' gives '/' + base_path + '/' + rest, a value that
\* matches no other rule gives '/' + base_path + '/' + value, and the result
\* has exactly one leading '/' for every base_path.
C20_RelativeResolved ==
    Called =>
        /\ starts_with(arg.path, DotSlash) =>
            /\ ret.value = Slash \o arg.base_path \o Slash
                            \o SubSeq(arg.path, 3, Len(arg.path))
            /\ OneLeadingSlash(ret.value)
        /\ NoOtherRule(arg.path) =>
            /\ ret.value = Slash \o arg.base_path \o Slash \o arg.path
            /\ OneLeadingSlash(ret.value)

\* C20 as amended: with v the value without the whitespace around it and b
\* the base_path without the '/' at its two ends, './rest' gives
\* '/' + b + '/' + rest and a v that matches no other rule gives
\* '/' + b + '/' + v; the result has exactly one leading '/' when b is not
\* empty and starts with '//' when b is empty.
C20_RelativeResolvedTrimmed ==
    Called =>
        LET v == Stripped(arg.path, " ")
            b == Stripped(arg.base_path, "/")
        IN  /\ starts_with(v, DotSlash) =>
                ret.value = Slash \o b \o Slash \o SubSeq(v, 3, Len(v))
            /\ NoOtherRule(v) => ret.value = Slash \o b \o Slash \o v
            /\ (starts_with(v, DotSlash) \/ NoOtherRule(v)) =>
                IF b # <<>> THEN OneLeadingSlash(ret.value)
                ELSE starts_with(ret.value, <<"/", "/">>)

\* "./x" under "p/p" gave "/p/p/x".
C20_Witness ==
    /\ Called
    /\ arg.path = <<".", "/", "x">>
    /\ arg.base_path = <<"p", "/", "p">>
    /\ ret.value = <<"/", "p", "/", "p", "/", "x">>

\* The pieces of s between its '/' characters.
Parts(s) ==
    LET cuts == {0, Len(s) + 1} \cup {i \in 1..Len(s) : s[i] = "/"}
        cut(i) == CHOOSE c \in cuts : Cardinality({d \in cuts : d < c}) = i
    IN  [i \in 1..(Cardinality(cuts) - 1) |->
            SubSeq(s, cut(i - 1) + 1, cut(i) - 1)]

\* The pieces put together again, each followed by a '/'.
SlashEach(parts) == Concat([i \in 1..Len(parts) |-> parts[i] \o Slash])

\* The pieces put together again with a '/' between them.
Joined(parts) ==
    IF parts = <<>> THEN <<>>
    ELSE SubSeq(SlashEach(parts), 1, Len(SlashEach(parts)) - 1)

\* The number of "../" the value starts with, one after the other.
LeadingUps(v) ==
    LET fits == {n \in 0..Len(v) :
                    \A i \in 0..(n - 1) :
                        /\ 3 * i + 3 <= Len(v)
                        /\ SubSeq(v, 3 * i + 1, 3 * i + 3) = DotDotSlash}
    IN  CHOOSE n \in fits : \A m \in fits : m <= n

\* The number of ".." pieces the value starts with.
LeadingDotDots(parts) ==
    LET fits == {n \in 0..Len(parts) : \A i \in 1..n : parts[i] = DotDot}
    IN  CHOOSE n \in fits : \A m \in fits : m <= n

\* The segments of a base path; an empty base path has none.
Segments(b) == IF b = <<>> THEN <<>> ELSE Parts(b)

\* The first len - n of the segments, none when n is len or more.
Kept(segs, n) == SubSeq(segs, 1, IF n >= Len(segs) THEN 0 ELSE Len(segs) - n)

\* The result starts with a ".." segment.
LeadingDotDot(s) == Len(Parts(s)) >= 2 /\ Parts(s)[2] = DotDot

\* C21 as stated: for a value that starts with n >= 1 "../", resolve_path
\* drops n trailing segments of base_path (all of them when there are fewer)
\* and puts what is left of the base before the rest of the value; the
\* result has no leading ".." segment.
C21_ParentSegments ==
    (Called /\ starts_with(arg.path, DotDotSlash)) =>
        LET n == LeadingUps(arg.path)
            rest == SubSeq(arg.path, 3 * n + 1, Len(arg.path))
            kept == Kept(Segments(Stripped(arg.base_path, "/")), n)
        IN  /\ ret.value = Slash \o SlashEach(kept) \o rest
            /\ ~LeadingDotDot(ret.value)

\* C21 as amended: with v the value without the whitespace around it, cut
\* at its '/' into pieces of which the first n >= 1 are "..", and b the
\* base_path without the '/' at its two ends, resolve_path drops n trailing
\* segments of b (all of them when there are n or fewer) and puts what is
\* left before the other pieces of v; for a base_path without ".." segments
\* the result has no leading ".." segment.
C21_ParentPieces ==
    (Called /\ starts_with(Stripped(arg.path, " "), DotDotSlash)) =>
        LET pieces == Parts(Stripped(arg.path, " "))
            n == LeadingDotDots(pieces)
            kept == Kept(Segments(Stripped(arg.base_path, "/")), n)
        IN  /\ n >= 1
            /\ ret.value = Slash \o SlashEach(kept)
                            \o Joined(SubSeq(pieces, n + 1, Len(pieces)))
            /\ ~LeadingDotDot(ret.value)

\* "../x" under "p/p" gave "/p/x".
C21_Witness ==
    /\ Called
    /\ arg.path = DotDotSlash \o <<"x">>
    /\ arg.base_path = <<"p", "/", "p">>
    /\ ret.value = <<"/", "p", "/", "x">>

\* A <pre> opening tag is directly followed by a <code> with a language
\* class.
Qualifies(ts) ==
    \E i \in 1..(Len(ts) - 1) : ts[i] \in PreOpens /\ ts[i + 1] = CodeLang

\* C22: when no <pre> block of the input has a <code class="language-X">
\* as its immediate inner content, or highlighting fails, the output of
\* highlight_code_blocks is the input, byte for byte, for every input,
\* well-formed or not.
C22_OtherBlocksUnchanged ==
    (Called /\ (~arg.ok \/ ~Qualifies(arg.tokens))) =>
        ~ret.panicked /\ ret.result = arg.html

\* Every closing </pre> of the tokens has its opening tag before it and
\* none is left open.
PreBalanced(ts) ==
    LET opens(n) == Cardinality({i \in 1..n : ts[i] \in PreOpens})
        closes(n) == Cardinality({i \in 1..n : ts[i] = PreEnd})
    IN  /\ \A i \in 1..Len(ts) : ts[i] \in PreOpens \cup {PreEnd, Text}
        /\ \A n \in 1..Len(ts) : closes(n) <= opens(n)
        /\ closes(Len(ts)) = opens(Len(ts))

\* C23: the block of an opening <pre>, with or without a '>' in a quoted
\* attribute value, extends to the </pre> that matches it, past the <pre>
\* elements nested in it: a block whose inner content is one
\* <code class="language-x"> element is replaced as a whole by the
\* highlighted code.
C23_MatchingClose ==
    (Called /\ arg.ok) =>
        \A p \in PreOpens, mid \in SeqsUpTo(PreOpens \cup {PreEnd, Text}, 2) :
            (/\ PreBalanced(mid)
             /\ arg.tokens = <<p, CodeLang>> \o mid \o <<CodeEnd, PreEnd>>)
            => /\ ~ret.panicked
               /\ ret.result = highlight_code(
                    decode_html_entities(Concat(mid)), <<"x">>, TRUE).out

\* C24: decoding the escaped form of a text gives the text back.
C24_DecodeInvertsEscape ==
    Called => ret.value = arg.text

\* One <pre> block around one <code class="language-x"> element of text.
CodeBlock(mid) == <<PreTag, CodeLang>> \o mid \o <<CodeEnd, PreEnd>>
CodeTexts == SeqsUpTo({Text}, 2)

\* The opening <pre> tag of a highlighted block, and the highlighted code
\* inside the block.
HighlightPre == SubSeq(HighlightOpen, 1, Len(HighlightOpen) - Len(CodeOpen))
HighlightedCode(code) ==
    CodeOpen \o SpanOpen \o <<"x", "\"", ">">> \o code \o SpanClose
        \o CodeEnd

Reordered(fs) ==
    {gs \in Listings : {gs[i] : i \in 1..Len(gs)} = {fs[i] : i \in 1..Len(fs)}}

\* The listings of the directory after one file is renamed, and after the
\* content of one file changes.
Renamed(fs) ==
    {gs \in Listings :
        \E i \in 1..Len(fs) :
            /\ Len(gs) = Len(fs)
            /\ gs = [fs EXCEPT ![i].path = gs[i].path]
            /\ gs[i].path # fs[i].path}
Rewritten(fs) ==
    {gs \in Listings :
        \E i \in 1..Len(fs) :
            /\ Len(gs) = Len(fs)
            /\ gs = [fs EXCEPT ![i].content = gs[i].content]
            /\ gs[i].content # fs[i].content}

\* C26: hash_directory gives the same digest for the same files in every
\* order of enumeration, and a different digest once a file is renamed with
\* its content unchanged or the content of a file changes.
C26_DigestOfPathsAndContents ==
    Called =>
        /\ \A gs \in Reordered(arg.files) :
                hash_directory_files(gs) = ret.value
        /\ \A gs \in Renamed(arg.files) :
                hash_directory_files(gs) # ret.value
        /\ \A gs \in Rewritten(arg.files) :
                hash_directory_files(gs) # ret.value

\* The parts of C26 taken one by one.
C26_OrderInvariant ==
    Called =>
        \A gs \in Reordered(arg.files) : hash_directory_files(gs) = ret.value
C26_ContentSensitive ==
    Called =>
        \A gs \in Rewritten(arg.files) : hash_directory_files(gs) # ret.value

\* Generator::new failed in every worker: the theme directory or a required
\* template is missing, the one cause that fails it for all of them.
ThemeUnusable == \A w \in Workers : wpc[w] = "gen_failed"

\* C27: a build whose theme directory or required template is missing
\* aborts before a content file is hashed, parsed or written and before the
\* cache or the metadata is persisted.
C27_PreflightAborts ==
    [][ThemeUnusable =>
            /\ diskCache' = diskCache
            /\ diskMeta' = diskMeta
            /\ procCount' = procCount
            /\ written' = written]_vars

\* C28: under fair scheduling a build_all_parallel run reaches the
\* aggregation phase, or the panic of a worker is what pool.join returns;
\* in both cases the result collection ends and pool.join returns, and
\* every worker that is spawned ends: none waits forever for the queue
\* lock or in recv.
C28_ReachesAggregation ==
    /\ (mainPc = "send") ~> (mainPc = "aggregate" \/ ~NoPanic)
    /\ (mainPc = "send") ~>
            (mainPc = "aggregate" \/ outcome = "worker_panicked")
    /\ \A w \in Workers : (wpc[w] \in Active) ~> (wpc[w] \in Terminal)

\* The aggregation phase is reached: no worker panicked, every worker left
\* its loop, the queue is empty and every path has its result.
C28_Witness ==
    /\ mainPc = "aggregate"
    /\ NoPanic
    /\ \A w \in Workers : wpc[w] = "done"
    /\ queue = <<>> /\ chan = <<>>
    /\ \A p \in Paths : ResultsFor(results, p) # {}

\* pool.join has returned Ok in the build that runs.
JoinReturned ==
    Running /\ mainPc \in {"aggregate", "bail", "save_cache", "save_meta"}

\* The main thread takes a result from the collector channel.
ReadsResult == Len(results') > Len(results)

\* C29 as stated: the main thread reads a result from the collector channel
\* only after all workers have been joined.
C29_ReadAfterJoin ==
    [][ReadsResult => JoinReturned]_vars

\* C29 as amended: the main thread reads the results in its collect loop,
\* before it joins the workers and while they may still run; the loop ends,
\* and the join begins, only when every worker has terminated and every
\* result sent has been read, and no result is read after that.
C29_ReadBeforeJoin ==
    [][/\ ReadsResult => (mainPc = "collect" /\ mainPc' = "collect")
       /\ mainPc' \in {"join", "aggregate"} =>
            (AllTerminated' /\ chan' = <<>> /\ ~ReadsResult)]_vars

\* A result has been read while a worker is still running and none is
\* joined.
C29_Witness ==
    /\ mainPc = "collect"
    /\ results # <<>>
    /\ \E w \in Workers : wpc[w] \in Active

\* C30: a worker holds the work-queue lock only while it receives an item
\* and the cache lock only during the needs_rebuild check; it holds neither
\* while it hashes, parses, renders or writes a file or sends its result,
\* and never both.
C30_LockScope ==
    \A w \in Workers :
        /\ workLock.holder = w => wpc[w] = "recv"
        /\ cacheLock.holder = w => wpc[w] = "check"
        /\ wpc[w] \in {"hash", "process", "send"} =>
            (workLock.holder # w /\ cacheLock.holder # w)
        /\ ~(workLock.holder = w /\ cacheLock.holder = w)

\* Two workers process different files at the same time, both locks free,
\* in an incremental build.
C30_Witness ==
    /\ useCache
    /\ \E v, w \in Workers :
        /\ v # w
        /\ wpc[v] = "process" /\ wpc[w] = "process"
        /\ wpath[v] # wpath[w]
    /\ workLock.holder = 0 /\ cacheLock.holder = 0

\* ======================================================= sequential build
\* Steps of build_all's post loop whose Result is propagated with "?".
SeqFailSteps == {"hash", "parse", "plugin", "shortcode", "render", "write"}

\* A loop body that builds a post whatever the cache holds.
build_post_no_cache(path, content, c, use_cache, template_hash, failAt) ==
    IF failAt = "hash" THEN Error(path, "hash")
    ELSE IF failAt = "parse" THEN Error(path, "parse")
    ELSE IF content.draft THEN Skipped(path, "Draft")
    ELSE IF failAt \in {"plugin", "shortcode", "render", "write"}
    THEN Error(path, failAt)
    ELSE Success(path, content, hash_file(content), template_hash)

\* main.rs build_all, body of the post loop for one walked file: hash_file,
\* the cache check, Parser::parse_file, the draft check, the plugin hooks,
\* shortcodes, rendering and generate_post.  failAt names the step whose
\* Result is Err (None: every step succeeds); an Error value stands for the
\* Err that "?" returns from build_all.
build_post(path, content, c, use_cache, template_hash, failAt) ==
    IF failAt = "hash" THEN Error(path, "hash")
    ELSE IF use_cache /\ ~needs_rebuild(c, path, hash_file(content),
                                        template_hash)
    THEN Skipped(path, "Cached")
    ELSE IF failAt = "parse" THEN Error(path, "parse")
    ELSE IF content.draft THEN Skipped(path, "Draft")
    ELSE IF failAt \in {"plugin", "shortcode", "render", "write"}
    THEN Error(path, failAt)
    ELSE Success(path, content, hash_file(content), template_hash)

\* main.rs build_all up to the post loop: load_config, Generator::new,
\* BuildCache::load, plugin init, the content-directory check,
\* hash_directory and discover_categories; ok is whether all of them
\* returned Ok (each is propagated with "?" or bail!).
SeqStart(inc, ok) ==
    /\ mainPc = "idle"
    /\ run < MaxRuns
    /\ run' = run + 1
    /\ now' = now + 1
    /\ IF ok
       THEN /\ useCache' = inc
            /\ templateHash' = hash_directory(theme)
            /\ metadata' = IF inc THEN MetadataCache_load(diskMeta)
                           ELSE MetadataCache_new
            /\ cache' = IF inc THEN BuildCache_load(diskCache)
                        ELSE BuildCache_new
            /\ toSend' = file_paths
            /\ outcome' = "running"
            /\ mainPc' = "seq_loop"
       ELSE /\ outcome' = "setup_failed"
            /\ mainPc' = "exit"
            /\ UNCHANGED <<useCache, templateHash, metadata, cache, toSend>>
    /\ UNCHANGED <<diskVars, lastWrite, updates, edits, queue, senderOpen,
                   poolVars, chan, mainTx, results, errors, saves, prev,
                   postPath, written, arg, ret>>

\* main.rs build_all: one iteration of the post loop, on the next walked
\* file.  An Err of any step leaves build_all at once; a Success updates
\* the cache entry and the metadata in memory.
SeqFile(failAt) ==
    /\ Running /\ mainPc = "seq_loop"
    /\ toSend # <<>>
    /\ LET p == Head(toSend)
           r == build_post(p, files[p], cache, useCache, templateHash,
                           failAt)
       IN /\ (failAt # None) = (r.kind = "Error")
          /\ procCount' = [procCount EXCEPT ![p] = @ + 1]
          /\ toSend' = Tail(toSend)
          /\ IF r.kind = "Error"
             THEN /\ faulty' = faulty \cup {p}
                  /\ errors' = Append(errors, <<p, r.error>>)
                  /\ outcome' = "posts_failed"
                  /\ mainPc' = "exit"
                  /\ UNCHANGED <<cache, metadata, written, results, progress>>
             ELSE IF r.kind = "Skipped"
             THEN /\ results' = Append(results, r)
                  /\ progress' = [progress EXCEPT !.skipped = @ + 1]
                  /\ UNCHANGED <<cache, metadata, written, errors, outcome,
                                 mainPc, faulty>>
             ELSE /\ cache' = update_entry(cache, p, r.file_hash,
                                           r.template_hash, r.output_path,
                                           now)
                  /\ metadata' = upsert_post(metadata, r.slug, r.frontmatter)
                  /\ written' = written \cup {r.output_path}
                  /\ results' = Append(results, r)
                  /\ progress' = [progress EXCEPT !.built = @ + 1]
                  /\ UNCHANGED <<errors, outcome, mainPc, faulty>>
    /\ UNCHANGED <<diskVars, lastWrite, updates, now, run, edits, useCache,
                   templateHash, queue, senderOpen, chan, mainTx, workLock,
                   cacheLock, wpc, wpath, wres, recvCount, saves, prev,
                   postPath, arg, ret>>

\* main.rs build_all: the walk is exhausted, the loop is left for
\* "if use_cache { cache.save()?; }".
SeqEnd ==
    /\ Running /\ mainPc = "seq_loop"
    /\ toSend = <<>>
    /\ mainPc' = "save_cache"
    /\ UNCHANGED <<diskVars, cacheVars, run, edits, useCache, templateHash,
                   metadata, chanVars, poolVars, results, errors, outcome,
                   saves, prev, postPath, written, arg, ret>>

NextSeq ==
    \/ \E inc \in BOOLEAN, ok \in BOOLEAN : SeqStart(inc, ok)
    \/ \E failAt \in SeqFailSteps \cup {None} : SeqFile(failAt)
    \/ SeqEnd
    \/ \E ok \in BOOLEAN : SaveCache(ok)
    \/ \E ok \in BOOLEAN : SaveMeta(ok)
    \/ Exit
    \/ \E p \in Paths, c \in Contents : EditFile(p, c)
    \/ \E t \in Themes : EditTheme(t)

SpecSeq == Init /\ [][NextSeq]_vars

\* C31: in the sequential build a failure on one file leaves every
\* remaining file attempted and the cache entries of the files that
\* succeeded persisted.
C31_ContinuesAfterFailure ==
    (mainPc = "exit" /\ faulty # {}) =>
        /\ \A p \in Paths : procCount[p] >= 1
        /\ useCache =>
            \A i \in 1..Len(results) :
                results[i].kind = "Success" =>
                    /\ diskCache # Nil
                    /\ results[i].path \in DOMAIN diskCache.entries
                    /\ diskCache.entries[results[i].path].file_hash
                           = results[i].file_hash

MaxDirDepth == 2
ContentName == <<"c", "o", "n", "t", "e", "n", "t">>
PostsName == <<"p", "o", "s", "t", "s">>
DevName == <<"d", "e", "v">>
SubName == <<"s", "u", "b">>
DistName == <<"d", "i", "s", "t">>
IndexHtml == <<"i", "n", "d", "e", "x", ".", "h", "t", "m", "l">>
DirNames == {DevName, SubName}
FileNames == {<<"a", ".", "m", "d">>, <<"b", " ", ".", "m", "d">>}

\* The markdown files a walk of content/posts can find.
PostFiles ==
    {<<ContentName, PostsName>> \o ds \o <<f>> :
        ds \in SeqsUpTo(DirNames, MaxDirDepth), f \in FileNames}

\* std Path::file_stem: the file name up to its last "." (the whole name
\* when it has none or only begins with one).
file_stem(path) ==
    LET name == path[Len(path)]
        dot == rfind(name, <<".">>)
    IN IF dot <= 1 THEN name ELSE SubSeq(name, 1, dot - 1)

\* parser.rs Parser::encode_slug for slugs of at most 200 bytes:
\* utf8_percent_encode with the PATH set, of which the space is modelled.
RECURSIVE encode_slug(_)
encode_slug(slug) ==
    IF slug = <<>> THEN <<>>
    ELSE (IF Head(slug) = " " THEN <<"%", "2", "0">> ELSE <<Head(slug)>>)
         \o encode_slug(Tail(slug))

\* parser.rs Parser::extract_category: the component after the first
\* component "posts" that has one (Nil: bail!).
extract_category(path) ==
    LET at == {i \in 1..Len(path) : path[i] = PostsName /\ i + 1 <= Len(path)}
    IN IF at = {} THEN Nil
       ELSE LET i == CHOOSE i \in at : \A k \in at : i <= k
            IN [value |-> path[i + 1]]

\* parser.rs Parser::parse_file: the slug and the category of the Post
\* (Nil: Err).
parse_file(path) ==
    IF extract_category(path) = Nil THEN Nil
    ELSE [slug |-> encode_slug(file_stem(path)),
          category |-> extract_category(path).value]

\* generator.rs Generator::get_post_path with encode_filenames off:
\* <output_dir>/<category>/<slug>/index.html
post_output_path(post) == <<DistName, post.category, post.slug, IndexHtml>>

InitPostPath ==
    /\ InitStore
    /\ \E a \in PostFiles, b \in PostFiles :
          /\ a # b
          /\ arg = [a |-> a, b |-> b]
    /\ ret = Nil

\* One build parses both files and computes where their pages go.
CallPostPath ==
    /\ arg # Nil /\ ret = Nil
    /\ ret' = [a |-> IF parse_file(arg.a) = Nil THEN Nil
                     ELSE [value |-> post_output_path(parse_file(arg.a))],
               b |-> IF parse_file(arg.b) = Nil THEN Nil
                     ELSE [value |-> post_output_path(parse_file(arg.b))]]
    /\ UNCHANGED <<storeVars, arg>>

SpecPostPath == InitPostPath /\ [][CallPostPath]_vars

\* C33: no two distinct input paths processed in one build are written to
\* the same output file.
C33_UniqueOutputPath ==
    (ret # Nil /\ ret.a # Nil /\ ret.b # Nil) => ret.a.value # ret.b.value

\* ------------------------------------------- replace_tag, one pass
\* replace_tag with a template that renders an element of its own name.
MaxSelfTokens == 5
SelfInputs ==
    SeqsUpTo(NestTokens, MaxSelfTokens)
        \cup {<<OpenAPrefix>> \o cs : cs \in SeqsUpTo(TagChars, MaxTagChars)}

InitReplaceSelf ==
    /\ InitStore
    /\ arg \in {[tokens |-> ts, html |-> Concat(ts), kind |-> SelfKind] :
                    ts \in SelfInputs}
    /\ ret = Nil

SpecReplaceSelf == InitReplaceSelf /\ [][CallReplaceTag]_vars

\* What the template rendered for a matched element.
Rendered(call, kind) ==
    render(kind, call.name, build_context(call.attrs, call.content, BasePath))

\* The input with each matched element replaced by what was pushed for it:
\* the template's output, or the opening tag when the template failed.
RECURSIVE Spliced(_, _, _, _, _)
Spliced(html, calls, k, i, kind) ==
    IF k > Len(calls) THEN SubSeq(html, i, Len(html))
    ELSE SubSeq(html, i, calls[k].start - 1)
         \o (IF calls[k].ok THEN Rendered(calls[k], kind).out
             ELSE calls[k].tag)
         \o Spliced(html, calls, k + 1, calls[k].stop + 1, kind)

\* The input positions where an opening tag of the component begins.
Openers(html, tag_name) ==
    Occurrences(html, open_exact(tag_name))
        \cup Occurrences(html, open_prefix(tag_name))

\* C34: replace_tag terminates and reads its input once from left to
\* right: the index of the scan grows at every step, the elements matched
\* lie one after another in the input, each begins at an opening tag of the
\* input, and the output is the input with the matched elements replaced,
\* the markup rendered by the template left as rendered.
C34_SinglePass ==
    /\ arg # Nil =>
          \A i \in 1..Len(arg.html) :
              /\ buffer_tag(arg.html, i + 1, FALSE, " ").next > i
              /\ scan_inner(arg.html, i, 1, <<>>, AName).next >= i
              /\ scan_inner(arg.html, i, 1, <<>>, AName).next
                     <= Len(arg.html) + 1
    /\ Called =>
          /\ \A k \in 1..Len(ret.calls) :
                /\ 1 <= ret.calls[k].start
                /\ ret.calls[k].start <= ret.calls[k].stop
                /\ ret.calls[k].stop <= Len(arg.html)
                /\ ret.calls[k].start \in Openers(arg.html, AName)
                /\ k > 1 => ret.calls[k - 1].stop < ret.calls[k].start
          /\ ret.result = Spliced(arg.html, ret.calls, 1, 1, arg.kind)

\* An element is replaced by a template whose output holds its own tag,
\* and the output holds that tag.
C34_Witness ==
    /\ Called
    /\ arg.tokens = <<OpenA, Text, CloseA>>
    /\ arg.kind = SelfKind
    /\ Len(ret.calls) = 1
    /\ ret.result = <<"<", "a", ">", "Z", "<", "/", "a", ">">>

\* ---------------------------------------- sequential against parallel
\* main.rs build_all: the post loop over the walked paths when no step
\* fails, from the cache c and the metadata m as loaded: the outcome of
\* each path in walk order, the cache and the metadata after the loop.
RECURSIVE build_all_posts(_, _, _, _, _, _, _, _)
build_all_posts(paths, fs, c, m, use_cache, template_hash, t, rs) ==
    IF paths = <<>> THEN [results |-> rs, cache |-> c, metadata |-> m]
    ELSE LET p == Head(paths)
             r == build_post(p, fs[p], c, use_cache, template_hash, None)
         IN IF r.kind = "Success"
            THEN build_all_posts(Tail(paths), fs,
                     update_entry(c, p, r.file_hash, r.template_hash,
                                  r.output_path, t),
                     upsert_post(m, r.slug, r.frontmatter),
                     use_cache, template_hash, t, Append(rs, r))
            ELSE build_all_posts(Tail(paths), fs, c, m, use_cache,
                                 template_hash, t, Append(rs, r))

\* The sequential build of the content, theme and persisted cache that the
\* running build started from.
Sequential ==
    build_all_posts(file_paths, files,
                    IF useCache THEN BuildCache_load(diskCache)
                    ELSE BuildCache_new,
                    IF useCache THEN MetadataCache_load(diskMeta)
                    ELSE MetadataCache_new,
                    useCache, hash_directory(theme), now, <<>>)

\* The outcomes a sequence of results gives to a path.
Outcomes(rs, p) == {KindOf(rs[i]) : i \in ResultsFor(rs, p)}

\* What a cache entry records of a build, the time stamp left out.
EntryOf(c, p) ==
    IF p \notin DOMAIN c.entries THEN Nil
    ELSE [file_hash |-> c.entries[p].file_hash,
          template_hash |-> c.entries[p].template_hash,
          output_path |-> c.entries[p].output_path]

\* The posts a MetadataCache holds, their order left out.
PostSet(m) == {m.posts[i] : i \in 1..Len(m.posts)}

\* The parallel build has aggregated its results, none of them an Error.
ParallelSwept == Running /\ mainPc = "save_cache"

C35_LoopIsFold ==
    (Running /\ mainPc = "save_cache") =>
        /\ results = Sequential.results
        /\ cache = Sequential.cache
        /\ metadata = Sequential.metadata

\* ================================================= MetadataCache counted
MaxUpserts == 3
MaxTags == 2
Slugs == {"post1", "post2"}
CategoryNames == {"dev", "chat"}
TagValues == {"rust", "webdev"}
Frontmatters ==
    [category : CategoryNames, tags : SeqsUpTo(TagValues, MaxTags)]

\* Number of elements of the sequence s that equal x.
RECURSIVE count_of(_, _)
count_of(s, x) ==
    IF s = <<>> THEN 0
    ELSE (IF Head(s) = x THEN 1 ELSE 0) + count_of(Tail(s), x)

\* metadata.rs recalculate_stats: both maps are cleared, then every post
\* adds one to the entry of its category and one to the entry of each
\* element of its tags.
recalculate_stats(posts) ==
    LET cats == {posts[i].frontmatter.category : i \in 1..Len(posts)}
        tgs == UNION {{posts[i].frontmatter.tags[k] :
                          k \in 1..Len(posts[i].frontmatter.tags)} :
                      i \in 1..Len(posts)}
        all_tags == Concat([i \in 1..Len(posts) |-> posts[i].frontmatter.tags])
    IN [categories |->
            [c \in cats |->
                count_of([i \in 1..Len(posts) |->
                              posts[i].frontmatter.category], c)],
        tags |-> [t \in tgs |-> count_of(all_tags, t)]]

\* metadata.rs MetadataCache::new, with its count maps
MetadataCache_new_counted ==
    [posts |-> <<>>, categories |-> <<>>, tags |-> <<>>]

\* metadata.rs MetadataCache::upsert_post, with recalculate_stats
upsert_post_counted(m, slug, frontmatter) ==
    LET posts == upsert_post(m, slug, frontmatter).posts
    IN [posts |-> posts,
        categories |-> recalculate_stats(posts).categories,
        tags |-> recalculate_stats(posts).tags]

InitMetadata ==
    /\ InitStore
    /\ arg = [calls |-> 0]
    /\ ret = MetadataCache_new_counted

\* One call cache.upsert_post(slug, frontmatter).
CallUpsert(slug, frontmatter) ==
    /\ arg.calls < MaxUpserts
    /\ ret' = upsert_post_counted(ret, slug, frontmatter)
    /\ arg' = [calls |-> arg.calls + 1, slug |-> slug,
               frontmatter |-> frontmatter]
    /\ UNCHANGED storeVars

NextMetadata ==
    \E slug \in Slugs, frontmatter \in Frontmatters :
        CallUpsert(slug, frontmatter)

SpecMetadata == InitMetadata /\ [][NextMetadata]_vars

\* The count stored under a key (0: the map has no entry for it).
Stored(map, key) == IF key \in DOMAIN map THEN map[key] ELSE 0
Carries(post, tag) ==
    \E k \in 1..Len(post.frontmatter.tags) : post.frontmatter.tags[k] = tag

\* C36: after any sequence of upsert_post calls there is at most one post
\* per slug, the one upserted last for it, and the count stored for every
\* category and every tag is the number of posts that carry it.
C36_CountsMatchPosts ==
    /\ \A s \in Slugs :
          Cardinality({i \in 1..Len(ret.posts) : ret.posts[i].slug = s}) <= 1
    /\ arg.calls > 0 =>
          \E i \in 1..Len(ret.posts) :
              /\ ret.posts[i].slug = arg.slug
              /\ ret.posts[i].frontmatter = arg.frontmatter
    /\ \A c \in CategoryNames :
          Stored(ret.categories, c)
              = Cardinality({i \in 1..Len(ret.posts) :
                                ret.posts[i].frontmatter.category = c})
    /\ \A t \in TagValues :
          Stored(ret.tags, t)
              = Cardinality({i \in 1..Len(ret.posts) :
                                Carries(ret.posts[i], t)})

\* The same without the tag counts, which holds.
C36_SlugsAndCategories ==
    /\ \A s \in Slugs :
          Cardinality({i \in 1..Len(ret.posts) : ret.posts[i].slug = s}) <= 1
    /\ \A c \in CategoryNames :
          Stored(ret.categories, c)
              = Cardinality({i \in 1..Len(ret.posts) :
                                ret.posts[i].frontmatter.category = c})

\* ------------------------------------------- independence of the schedule
\* The cache and the metadata the running build loaded.
LoadedCache == IF useCache THEN BuildCache_load(diskCache) ELSE BuildCache_new
LoadedMeta ==
    IF useCache THEN MetadataCache_load(diskMeta) ELSE MetadataCache_new

\* The outcome of a path whose steps all succeed, as a function of its
\* file, the theme and the loaded cache.
Determined(p) ==
    IF useCache /\ ~needs_rebuild(LoadedCache, p, hash_file(files[p]),
                                  hash_directory(theme))
    THEN "Cached"
    ELSE IF files[p].draft THEN "Draft"
    ELSE "Success"

\* The outcomes of a path: a path with a failing step yields an Error,
\* unless it is a draft and the step comes after the draft check.
DeterminedBy(p) ==
    IF p \notin faulty THEN {Determined(p)}
    ELSE IF files[p].draft THEN {"Error", "Draft"}
    ELSE {"Error"}

Built == {p \in Paths : p \notin faulty /\ Determined(p) = "Success"}

\* The results are aggregated: cache and metadata are what the build would
\* persist, the persisted documents still what it loaded.
Aggregated == Running /\ mainPc = "bail"

RECURSIVE Preserved(_, _, _, _, _)
Preserved(html, calls, k, i, kind) ==
    IF k > Len(calls) THEN SubSeq(html, i, Len(html))
    ELSE IF calls[k].ok
    THEN SubSeq(html, i, calls[k].start - 1)
         \o Rendered(calls[k], kind).out
         \o Preserved(html, calls, k + 1, calls[k].stop + 1, kind)
    ELSE Preserved(html, calls, k + 1, i, kind)

\* C38: replace_tag keeps every input character outside a replaced element,
\* verbatim and in order: the output is the input with the replaced
\* elements exchanged for their rendering, and is the input when no opening
\* tag of the component occurs.
C38_OutsidePreserved ==
    Called => ret.result = Preserved(arg.html, ret.calls, 1, 1, arg.kind)

\* The parts of C38 that hold: the output is the input when no element is
\* matched, and the characters outside the matched elements are kept when
\* every matched element is rendered.
C38_PreservedWhenRendered ==
    (Called /\ \A k \in 1..Len(ret.calls) : ret.calls[k].ok) =>
        /\ ret.result = Preserved(arg.html, ret.calls, 1, 1, arg.kind)
        /\ Openers(arg.html, AName) = {} => ret.result = arg.html

\* C39: resolve_path is idempotent: resolving the resolved value against
\* the same base path gives the resolved value.
C39_Idempotent ==
    Called => resolve_path(ret.value, arg.base_path) = ret.value

\* A relative value was resolved against the base path, and resolving the
\* result again leaves it.
C39_Witness ==
    /\ Called
    /\ arg.path = <<".", "/", "x">>
    /\ arg.base_path = <<"p">>
    /\ ret.value = <<"/", "p", "/", "x">>
    /\ resolve_path(ret.value, arg.base_path) = ret.value

\* ------------------------------- replace_tag, quotes inside nested tags
\* An anchor whose content is a nested tag with one double-quoted attribute
\* value, followed by text: <a><b t="VALUE">Z</a>.  The value is made of
\* '>', the anchor's closing and opening tag, and a letter.
MaxQuotedParts == 3
NestedOpen == <<"<", "b", " ", "t", "=", "\"">>
NestedClose == <<"\"", ">">>
QuotedParts == { <<">">>, CloseA, OpenA, <<"x">> }
QuotedValues == SeqsUpTo(QuotedParts, MaxQuotedParts)
QuotedElement(vs) ==
    <<OpenA, NestedOpen>> \o vs \o <<NestedClose, Text, CloseA>>

InitQuotedNested ==
    /\ InitStore
    /\ arg \in {[tokens |-> QuotedElement(vs), html |-> Concat(QuotedElement(vs)),
                 kind |-> k, value |-> Concat(vs)] :
                    vs \in QuotedValues, k \in {"echo", "strict"}}
    /\ ret = Nil

SpecQuotedNested == InitQuotedNested /\ [][CallReplaceTag]_vars

\* C40: text inside a quoted attribute value of a nested tag is not counted
\* as a tag of the component: whatever the value holds, the one element
\* ends at its closing tag, the last of the input, and its content is the
\* nested tag with its value followed by the text.
C40_QuotedTextNotCounted ==
    Called =>
        /\ Len(ret.calls) = 1
        /\ ret.calls[1].stop = Len(arg.html)
        /\ ret.calls[1].content
              = NestedOpen \o arg.value \o NestedClose \o Text

\* The part of C40 that holds: a value without '>' is never counted.
C40_WithoutGreaterThan ==
    (Called /\ \A i \in 1..Len(arg.value) : arg.value[i] # ">") =>
        /\ Len(ret.calls) = 1
        /\ ret.calls[1].stop = Len(arg.html)
        /\ ret.calls[1].content
              = NestedOpen \o arg.value \o NestedClose \o Text

====
